---------------------------- MODULE Spec2Model ----------------------------
(***************************************************************************)
(* A model of pynbody's Gadget snapshot reader/writer (pynbody/gadget.py). *)
(*                                                                         *)
(* The module holds several specifications over one set of variables; each *)
(* specification drives one part of the program and leaves the variables   *)
(* of the other parts idle:                                                *)
(*   SpecScan    the per-block step of GadgetFile.__init__ (stride and     *)
(*               presence inference) over bounded headers and blocks       *)
(*   SpecFormat  GadgetFile.__init__ and GadgetSnap._can_load on files     *)
(*               whose first four bytes vary                               *)
(*   SpecBlockIO GadgetFile.write_block and get_block on an opened file    *)
(*   SpecHeader  Open, write_header with the header read, Open again       *)
(*   SpecSnap    GadgetSnap.__init__ on a set of numbered files, then       *)
(*               GadgetSnap._write                                         *)
(* Files are sequences of bytes (0..255).  A numeric value is held as the  *)
(* tuple of its bytes, least significant first, so that values above the   *)
(* range of TLC's integers (the top bit of a 32-bit field) keep their      *)
(* width; struct's byte order decides how the tuple lies in the file.      *)
(***************************************************************************)
EXTENDS Integers, Sequences, FiniteSets, TLC

VARIABLES
    scan,    \* the scan loop of GadgetFile.__init__: header counts, block in hand
    host,    \* sys.byteorder of the machine: "little" or "big"
    pack_masks, \* struct.pack of an out-of-range integer: TRUE masks it
             \* (Python 2.6, DeprecationWarning), FALSE raises struct.error
    newline, \* os.linesep of the platform: "lf", or "crlf" (Windows, the
             \* platform of the comment of lines 146-149), where a file
             \* opened without "b" writes byte 10 as the bytes 13, 10
    float_index, \* numpy takes a float as a slice bound: TRUE (numpy before
             \* 1.12, from 1.8 on with a DeprecationWarning), FALSE raises
             \* TypeError
    disk,    \* the files: file name -> sequence of bytes
    gf,      \* the GadgetFile objects: file name -> object, or NoFile
    snap,    \* the GadgetSnap object and the position of its constructor
    op,      \* the operation in hand: its position, arguments and result
    kernel,  \* a sph.Kernel object: its lock, its _samples, and the threads
             \* that call get_samples on it
    render   \* a call of sph.render_image or sph.to_3d_grid: its arguments,
             \* position, worker threads and the calls of the core it makes

vars ==
    <<scan, host, pack_masks, newline, float_index, disk, gf, snap, op,
      kernel, render>>

\* the variables of the byte-level specifications
filevars ==
    <<host, pack_masks, newline, float_index, disk, gf, snap, op, kernel,
      render>>

\* the variables of the snapshot files
gadgetvars ==
    <<scan, host, pack_masks, newline, float_index, disk, gf, snap, op>>

\* no Kernel object and no render call
SphIdle ==
    /\ kernel = [pc |-> "none"]
    /\ render = [pc |-> "none"]

(***************************************************************************)
(* Bounds of the model.                                                    *)
(***************************************************************************)
\* largest per-type particle count in a header drawn by SpecScan
MaxCount == 2
\* largest number of particles a scanned block holds in SpecScan
MaxParts == 4
\* largest count of type 0 and of type 1 in the files of SpecBlockIO
MaxIO == 2
\* largest number of files of a snapshot in SpecSnap
MaxFiles == 12

(***************************************************************************)
(* Program constants.                                                      *)
(***************************************************************************)
N_TYPE == 6

Types == 0 .. (N_TYPE - 1)

\* Block names are the four bytes of the block header record.
NameHEAD == <<72, 69, 65, 68>>
NamePOS == <<80, 79, 83, 32>>
NameVEL == <<86, 69, 76, 32>>
NameID == <<73, 68, 32, 32>>
NameRHO == <<82, 72, 79, 32>>

(***************************************************************************)
(* Small helpers.                                                          *)
(***************************************************************************)
RECURSIVE SumUpTo(_, _)
\* f[0] + ... + f[n-1]   (numpy: f[0:n].sum())
SumUpTo(f, n) == IF n = 0 THEN 0 ELSE f[n - 1] + SumUpTo(f, n - 1)

\* numpy: npart.sum()
SumAll(f) == SumUpTo(f, N_TYPE)

MinOf(S) == CHOOSE x \in S : \A y \in S : x <= y

\* the particle types a mask holds
MaskSet(p_types) == {t \in Types : p_types[t]}

\* sum of the counts of the types a mask holds
MaskCount(p_types, npart) ==
    SumAll([t \in Types |-> IF p_types[t] THEN npart[t] ELSE 0])

(***************************************************************************)
(* GadgetFile.get_block_types: the presence heuristic.  The result is      *)
(* [ok |-> TRUE, p_types |-> mask] or [ok |-> FALSE] (ValueError).  The    *)
(* loops of the source run over n, m, l in 0..N_TYPE-1 in nested order and *)
(* return at the first match, so the first match is the least index tuple  *)
(* in lexicographic order; the indices are not required to differ.         *)
(***************************************************************************)
OnlyTypes(S) == [t \in Types |-> t \in S]

AllBut(S) == [t \in Types |-> t \notin S]

\* line 254: the test of the one-type loop
SingleHit(length, partlen, npart, n) ==
    length = npart[n] * partlen

\* mutant of PairHit: the two-type loops skipping n = m
PairHit_distinct(length, partlen, npart, n, m) ==
    n # m /\ length = (npart[n] + npart[m]) * partlen

\* line 260: the test of the two-type loops; n = m is not excluded
PairHit(length, partlen, npart, n, m) ==
    length = (npart[n] + npart[m]) * partlen

\* line 268: the test of the three-type loops; repeats are not excluded
TripleHit(length, partlen, npart, n, m, l) ==
    length = (npart[n] + npart[m] + npart[l]) * partlen

\* line 276: the test of the four-type loops; n = m is not excluded
FourHit(length, partlen, npart, n, m) ==
    length = (SumAll(npart) - npart[n] - npart[m]) * partlen

\* line 283: the test of the five-type loop
FiveHit(length, partlen, npart, n) ==
    length = (SumAll(npart) - npart[n]) * partlen

get_block_types(length, partlen, npart) ==
    LET one == {n \in Types : SingleHit(length, partlen, npart, n)}
        twoN == {n \in Types : \E m \in Types :
                    PairHit(length, partlen, npart, n, m)}
        threeN == {n \in Types : \E m, l \in Types :
                    TripleHit(length, partlen, npart, n, m, l)}
        fourN == {n \in Types : \E m \in Types :
                    FourHit(length, partlen, npart, n, m)}
        five == {n \in Types : FiveHit(length, partlen, npart, n)}
    IN  IF length = SumAll(npart) * partlen
        THEN [ok |-> TRUE, p_types |-> OnlyTypes(Types)]
        ELSE IF one # {}
        THEN [ok |-> TRUE, p_types |-> OnlyTypes({MinOf(one)})]
        ELSE IF twoN # {}
        THEN LET n == MinOf(twoN)
                 m == MinOf({x \in Types :
                               PairHit(length, partlen, npart, n, x)})
             IN  [ok |-> TRUE, p_types |-> OnlyTypes({n, m})]
        ELSE IF threeN # {}
        THEN LET n == MinOf(threeN)
                 m == MinOf({x \in Types : \E y \in Types :
                               TripleHit(length, partlen, npart, n, x, y)})
                 l == MinOf({y \in Types :
                               TripleHit(length, partlen, npart, n, m, y)})
             IN  [ok |-> TRUE, p_types |-> OnlyTypes({n, m, l})]
        ELSE IF fourN # {}
        THEN LET n == MinOf(fourN)
                 m == MinOf({x \in Types :
                               FourHit(length, partlen, npart, n, x)})
             IN  [ok |-> TRUE, p_types |-> AllBut({n, m})]
        ELSE IF five # {}
        THEN [ok |-> TRUE, p_types |-> AllBut({MinOf(five)})]
        ELSE [ok |-> FALSE]

(***************************************************************************)
(* GadgetFile.__init__, lines 197-219: stride and element type of a block  *)
(* from its name, its length and t_part.                                   *)
(***************************************************************************)
\* mutant of BlockStride: the ID rule falling through to the rule of the
\* other blocks
BlockStride_noid(name, length, t_part) ==
    IF name = NamePOS \/ name = NameVEL
    THEN IF length = t_part * 24
         THEN [partlen |-> 24, data_type |-> "float64"]
         ELSE [partlen |-> 12, data_type |-> "float32"]
    ELSE IF length = t_part * 8
         THEN [partlen |-> 8, data_type |-> "float64"]
         ELSE [partlen |-> 4, data_type |-> "float32"]

BlockStride(name, length, t_part) ==
    IF name = NamePOS \/ name = NameVEL
    THEN IF length = t_part * 24
         THEN [partlen |-> 24, data_type |-> "float64"]
         ELSE [partlen |-> 12, data_type |-> "float32"]
    ELSE IF name = NameID
    THEN IF length = t_part * 4
         THEN [partlen |-> 4, data_type |-> "int32"]
         ELSE [partlen |-> 8, data_type |-> "int64"]
    ELSE IF length = t_part * 8
         THEN [partlen |-> 8, data_type |-> "float64"]
         ELSE [partlen |-> 4, data_type |-> "float32"]

(***************************************************************************)
(* Bytes, struct.pack / struct.unpack and file access.                     *)
(***************************************************************************)
Byte == 0 .. 255

Rev(s) == [i \in 1 .. Len(s) |-> s[Len(s) + 1 - i]]

Zeros(n) == [i \in 1 .. n |-> 0]

\* the byte order a struct format prefix stands for: "=" is the machine's
ByteOrderOf(endian) ==
    IF endian = "=" THEN host
    ELSE IF endian = "<" THEN "little" ELSE "big"

\* struct.unpack of one numeric field: file bytes -> value bytes (LSB first)
Unpack(endian, bs) ==
    IF ByteOrderOf(endian) = "little" THEN bs ELSE Rev(bs)

\* struct.pack of one numeric field: value bytes (LSB first) -> file bytes
Pack(endian, w) ==
    IF ByteOrderOf(endian) = "little" THEN w ELSE Rev(w)

\* the number a 4-byte unsigned value stands for (top byte below 128 in
\* every value the model takes the number of)
UVal(w) == w[1] + 256 * (w[2] + 256 * (w[3] + 256 * w[4]))

\* the 4-byte value of a number
Word(n) ==
    <<n % 256, (n \div 256) % 256, (n \div 65536) % 256,
      (n \div 16777216) % 256>>

\* numpy int32: a value with the top bit set is negative
IsNeg(w) == w[Len(w)] >= 128

Min2(a, b) == IF a < b THEN a ELSE b

Max2(a, b) == IF a > b THEN a ELSE b

\* fd.seek(pos, 0); fd.read(n): at most n bytes, fewer at the end of file
ReadAt(file, pos, n) ==
    IF pos >= Len(file) THEN <<>>
    ELSE SubSeq(file, pos + 1, Min2(pos + n, Len(file)))

\* fd.seek(pos, 0); fd.write(bs): bytes replaced in place, the file grown
\* (a gap reads as zeros) when the write passes its end
WriteAt(file, pos, bs) ==
    [i \in 1 .. Max2(Len(file), pos + Len(bs)) |->
        IF i > pos /\ i <= pos + Len(bs) THEN bs[i - pos]
        ELSE IF i <= Len(file) THEN file[i]
        ELSE 0]

(***************************************************************************)
(* GadgetHeader: the 256-byte HEAD payload.  The format string of line 128 *)
(* is 40 numeric fields and 48 bytes of fill; HeaderFmt lists the fields.  *)
(***************************************************************************)
HeaderFmt ==
    <<"I", "I", "I", "I", "I", "I", "d", "d", "d", "d", "d", "d", "d", "d",
      "i", "i", "I", "I", "I", "I", "I", "I", "i", "i", "d", "d", "d", "d",
      "i", "i", "I", "I", "I", "I", "I", "I", "i", "i", "i", "f">>

\* struct.calcsize of one format character
FieldSize(c) == IF c = "d" THEN 8 ELSE 4

RECURSIVE FieldOffset(_)
\* offset of field k (from 1) in the payload: no padding under "=", "<", ">"
FieldOffset(k) ==
    IF k = 1 THEN 0 ELSE FieldOffset(k - 1) + FieldSize(HeaderFmt[k - 1])

\* struct.calcsize of the format of serialize (line 142): 256 - 48
SerializedSize == FieldOffset(Len(HeaderFmt)) + FieldSize(HeaderFmt[Len(HeaderFmt)])

\* the value of field k of a payload read under a byte order
FieldAt(endian, data, k) ==
    Unpack(endian, SubSeq(data, FieldOffset(k) + 1,
                          FieldOffset(k) + FieldSize(HeaderFmt[k])))

\* GadgetHeader.__init__(data, endian), lines 76-138, for a 256-byte data.
\* The fill (48s) is unpacked into a local and dropped.  npartTotal and
\* NallHW are int32 arrays fed from "I" fields: a value with the top bit
\* set is stored as the negative number of the same bits.
GadgetHeader(data, endian) ==
    [npart |-> [t \in Types |-> FieldAt(endian, data, 1 + t)],
     mass |-> [t \in Types |-> FieldAt(endian, data, 7 + t)],
     time |-> FieldAt(endian, data, 13),
     redshift |-> FieldAt(endian, data, 14),
     flag_sfr |-> FieldAt(endian, data, 15),
     flag_feedback |-> FieldAt(endian, data, 16),
     npartTotal |-> [t \in Types |-> FieldAt(endian, data, 17 + t)],
     flag_cooling |-> FieldAt(endian, data, 23),
     num_files |-> FieldAt(endian, data, 24),
     BoxSize |-> FieldAt(endian, data, 25),
     Omega0 |-> FieldAt(endian, data, 26),
     OmegaLambda |-> FieldAt(endian, data, 27),
     HubbleParam |-> FieldAt(endian, data, 28),
     flag_stellarage |-> FieldAt(endian, data, 29),
     flag_metals |-> FieldAt(endian, data, 30),
     NallHW |-> [t \in Types |-> FieldAt(endian, data, 31 + t)],
     flag_entropy_instead_u |-> FieldAt(endian, data, 37),
     flag_doubleprecision |-> FieldAt(endian, data, 38),
     flag_ic_info |-> FieldAt(endian, data, 39),
     lpt_scalingfactor |-> FieldAt(endian, data, 40),
     endian |-> endian]

\* GadgetHeader(''), lines 78-127: every field zero
EmptyHeader ==
    [npart |-> [t \in Types |-> Zeros(4)],
     mass |-> [t \in Types |-> Zeros(8)],
     time |-> Zeros(8), redshift |-> Zeros(8),
     flag_sfr |-> Zeros(4), flag_feedback |-> Zeros(4),
     npartTotal |-> [t \in Types |-> Zeros(4)],
     flag_cooling |-> Zeros(4), num_files |-> Zeros(4),
     BoxSize |-> Zeros(8), Omega0 |-> Zeros(8), OmegaLambda |-> Zeros(8),
     HubbleParam |-> Zeros(8),
     flag_stellarage |-> Zeros(4), flag_metals |-> Zeros(4),
     NallHW |-> [t \in Types |-> Zeros(4)],
     flag_entropy_instead_u |-> Zeros(4), flag_doubleprecision |-> Zeros(4),
     flag_ic_info |-> Zeros(4), lpt_scalingfactor |-> Zeros(4),
     endian |-> "="]

\* the values serialize packs, in the order of lines 151-157
HeaderValues(h) ==
    <<h.npart[0], h.npart[1], h.npart[2], h.npart[3], h.npart[4], h.npart[5],
      h.mass[0], h.mass[1], h.mass[2], h.mass[3], h.mass[4], h.mass[5],
      h.time, h.redshift, h.flag_sfr, h.flag_feedback,
      h.npartTotal[0], h.npartTotal[1], h.npartTotal[2], h.npartTotal[3],
      h.npartTotal[4], h.npartTotal[5],
      h.flag_cooling, h.num_files, h.BoxSize, h.Omega0, h.OmegaLambda,
      h.HubbleParam, h.flag_stellarage, h.flag_metals,
      h.NallHW[0], h.NallHW[1], h.NallHW[2], h.NallHW[3], h.NallHW[4],
      h.NallHW[5],
      h.flag_entropy_instead_u, h.flag_doubleprecision, h.flag_ic_info,
      h.lpt_scalingfactor>>

RECURSIVE FlattenRange(_, _, _)
\* the concatenation of the byte strings ss[lo], ..., ss[hi]
FlattenRange(ss, lo, hi) ==
    IF lo > hi THEN <<>>
    ELSE IF lo = hi THEN ss[lo]
    ELSE FlattenRange(ss, lo, (lo + hi) \div 2)
            \o FlattenRange(ss, (lo + hi) \div 2 + 1, hi)

\* the concatenation of a sequence of byte strings
Flatten(ss) == CHOOSE r \in {FlattenRange(s, 1, Len(s)) : s \in {ss}} : TRUE

\* int(self.npartTotal[t]) or int(self.NallHW[t]) is negative for some t:
\* struct.pack of a negative number under "I"
PacksNegative(h) ==
    \E t \in Types : IsNeg(h.npartTotal[t]) \/ IsNeg(h.NallHW[t])

\* GadgetHeader.serialize, lines 140-158: the 208 bytes of the 40 fields
\* under the header's own byte order; no fill
serialize(h) ==
    Flatten([k \in 1 .. Len(HeaderFmt) |->
                Pack(h.endian,
                     SubSeq(HeaderValues(h)[k], 1, FieldSize(HeaderFmt[k])))])

(***************************************************************************)
(* GadgetFile: reading.  An object is a record of the attributes           *)
(* _filename, endian, format2, block_names, header, blocks; blocks maps    *)
(* block names (byte strings) to GadgetBlock records.                      *)
(***************************************************************************)
NameBlank == <<32, 32, 32, 32>>

\* config_parser.get('gadget-1-blocks', "blocks").split(","), line 176: the
\* configured names of the blocks of a format 1 file, here HEAD,POS,VEL,ID
Gadget1Blocks == <<NameHEAD, <<80, 79, 83>>, <<86, 69, 76>>, <<73, 68>>>>

\* name[0:4]
Key4(name) == SubSeq(name, 1, Min2(4, Len(name)))

\* numpy itemsize of a block's data_type
ItemSize(data_type) ==
    IF data_type \in {"float64", "int64"} THEN 8 ELSE 4

\* numpy dtype.kind
KindOf(data_type) ==
    IF data_type \in {"float64", "float32"} THEN "f" ELSE "i"

\* the counts of a header as numbers
Counts(h) == [t \in Types |-> UVal(h.npart[t])]

\* line 195: t_part = self.header.npart.sum().  The sum is held as a number
\* where every count is below 2**27; a file with a larger count holds no
\* block in this module, its t_part is never read and is held as "large".
TotalParts(h) ==
    IF \A t \in Types : h.npart[t][4] < 8 THEN SumAll(Counts(h)) ELSE "large"

\* mutant of check_format: the two legacy magic numbers exchanged
check_format_swapped(file) ==
    LET first == ReadAt(file, 0, 4)
        r == UVal(Unpack("=", first))
        foreign == IF host = "little" THEN ">" ELSE "<"
    IN  IF Len(first) # 4 THEN [err |-> "struct.error"]
        ELSE IF r = 8 THEN [err |-> "", endian |-> "=", format2 |-> TRUE]
        ELSE IF r = 134217728
        THEN [err |-> "", endian |-> foreign, format2 |-> TRUE]
        ELSE IF r = 256
        THEN [err |-> "", endian |-> foreign, format2 |-> FALSE]
        ELSE IF r = 65536
        THEN [err |-> "", endian |-> "=", format2 |-> FALSE]
        ELSE [err |-> "IOError"]

\* GadgetFile.check_format, lines 291-319: the first four bytes read as a
\* native unsigned integer
check_format(file) ==
    LET first == ReadAt(file, 0, 4)
        r == UVal(Unpack("=", first))
        foreign == IF host = "little" THEN ">" ELSE "<"
    IN  IF Len(first) # 4 THEN [err |-> "struct.error"]
        ELSE IF r = 8 THEN [err |-> "", endian |-> "=", format2 |-> TRUE]
        ELSE IF r = 134217728
        THEN [err |-> "", endian |-> foreign, format2 |-> TRUE]
        ELSE IF r = 65536
        THEN [err |-> "", endian |-> foreign, format2 |-> FALSE]
        ELSE IF r = 256
        THEN [err |-> "", endian |-> "=", format2 |-> FALSE]
        ELSE [err |-> "IOError"]

\* GadgetFile.read_block_foot, lines 321-327
read_block_foot(file, pos, endian) ==
    LET bs == ReadAt(file, pos, 4)
    IN  IF Len(bs) # 4 THEN [err |-> "IOError"]
        ELSE [err |-> "", record_size |-> UVal(Unpack(endian, bs))]

\* GadgetFile.read_block_head, lines 330-354.  g holds endian, format2 and
\* block_names; the result names the block, its length, the position after
\* the record and the names left.
read_block_head(file, pos, g) ==
    IF g.format2
    THEN LET head == ReadAt(file, pos, 20)
             h0 == UVal(Unpack(g.endian, SubSeq(head, 1, 4)))
             h2 == UVal(Unpack(g.endian, SubSeq(head, 9, 12)))
             h3 == UVal(Unpack(g.endian, SubSeq(head, 13, 16)))
             h4 == UVal(Unpack(g.endian, SubSeq(head, 17, 20)))
         IN  IF Len(head) # 20
             THEN [err |-> "", name |-> NameBlank, length |-> 0,
                   pos |-> Len(file), block_names |-> g.block_names]
             ELSE IF h0 # 8 \/ h3 # 8 \/ h4 # h2 - 8
             THEN [err |-> "IOError"]
             ELSE [err |-> "", name |-> SubSeq(head, 5, 8), length |-> h2 - 8,
                   pos |-> pos + 20, block_names |-> g.block_names]
    ELSE LET rs == ReadAt(file, pos, 4)
         IN  IF Len(rs) # 4 THEN [err |-> "IOError"]
             ELSE IF g.block_names = <<>> THEN [err |-> "NameError"]
             ELSE [err |-> "", name |-> Head(g.block_names),
                   length |-> UVal(Unpack(g.endian, rs)),
                   pos |-> pos + 4, block_names |-> Tail(g.block_names)]

RECURSIVE ScanFrom(_, _, _)
\* the loop of GadgetFile.__init__, lines 179-238, from file position pos
\* with the object g as built so far.  The counts the module draws keep
\* t_part * partlen far below 2**32, so the seek of line 229 is the one
\* taken.  Each pass hands the next one the object as a value.
ScanFrom(file, pos, g) ==
    LET rh == read_block_head(file, pos, g)
    IN  IF rh.err # "" THEN [g EXCEPT !.err = rh.err]
        ELSE IF rh.length = 0
        THEN [g EXCEPT !.block_names = rh.block_names]
        ELSE IF Key4(rh.name) = NameHEAD
        THEN LET data == ReadAt(file, rh.pos, 256)
                 foot == read_block_foot(file, rh.pos + 256, g.endian)
             IN  IF rh.length # 256 \/ Len(data) # 256 \/ foot.err # ""
                 THEN [g EXCEPT !.err = "IOError"]
                 ELSE IF foot.record_size # 256
                 THEN [g EXCEPT !.err = "IOError",
                                !.header = GadgetHeader(data, g.endian)]
                 ELSE CHOOSE r \in
                        {ScanFrom(file, a[1], a[2]) :
                         a \in {<<rh.pos + 256 + 4,
                                  [g EXCEPT
                                    !.header = GadgetHeader(data, g.endian),
                                    !.t_part = TotalParts(
                                                 GadgetHeader(data, g.endian)),
                                    !.block_names = rh.block_names]>>}} : TRUE
        ELSE LET st == BlockStride(Key4(rh.name), rh.length, g.t_part)
                 foot == read_block_foot(file, rh.pos + rh.length, g.endian)
                 res == CHOOSE r \in
                            {get_block_types(rh.length, st.partlen, npart) :
                             npart \in {Counts(g.header)}} : TRUE
                 block == [start |-> rh.pos, length |-> rh.length,
                           partlen |-> st.partlen, data_type |-> st.data_type,
                           p_types |-> res.p_types]
             IN  IF foot.err # "" THEN [g EXCEPT !.err = "IOError"]
                 ELSE IF foot.record_size # rh.length
                 THEN [g EXCEPT !.err = "IOError"]
                 ELSE IF ~res.ok THEN [g EXCEPT !.err = "ValueError"]
                 ELSE CHOOSE r \in
                        {ScanFrom(file, a[1], a[2]) :
                         a \in {<<rh.pos + rh.length + 4,
                                  [g EXCEPT
                                    !.blocks = (Key4(rh.name) :> block) @@ g.blocks,
                                    !.block_names = rh.block_names]>>}} : TRUE

\* GadgetFile.__init__, lines 165-242.  err = "" is a constructed object;
\* otherwise the constructor raised and the record shows the attributes at
\* that moment.
GadgetFile(filename, file) ==
    LET cf == check_format(file)
        g0 == [err |-> "", _filename |-> filename, blocks |-> <<>>,
               header |-> EmptyHeader, endian |-> "", format2 |-> TRUE,
               t_part |-> 0, block_names |-> <<>>]
    IN  IF cf.err # "" THEN [g0 EXCEPT !.err = cf.err]
        ELSE CHOOSE r \in
               {ScanFrom(file, 0, g) :
                g \in {[g0 EXCEPT !.endian = cf.endian, !.format2 = cf.format2,
                                  !.block_names =
                                      IF cf.format2 THEN <<>>
                                      ELSE Gadget1Blocks]}} : TRUE

\* GadgetSnap._can_load, lines 704-722, for a file that exists: TRUE, FALSE
\* or the struct.error of a file shorter than four bytes
can_load(file) ==
    LET first == ReadAt(file, 0, 4)
        r == UVal(Unpack("=", first))
    IN  IF Len(first) # 4 THEN "struct.error"
        ELSE IF r = 8 \/ r = 134217728 \/ r = 65536 \/ r = 256 THEN "True"
        ELSE "False"

(***************************************************************************)
(* GadgetFile: block access.  g is a constructed object, file the bytes of *)
(* its file.  A data array is [dtype |-> ..., elems |-> sequence of        *)
(* element values], each value the bytes of one element, LSB first.        *)
(* Particle type -1 is "all types".                                        *)
(***************************************************************************)
HasBlock(g, name) == name \in DOMAIN g.blocks

\* GadgetFile.get_block_parts, lines 376-384
get_block_parts(g, name, p_type) ==
    IF ~HasBlock(g, name) THEN 0
    ELSE IF p_type = -1
    THEN g.blocks[name].length \div g.blocks[name].partlen
    ELSE IF g.blocks[name].p_types[p_type]
    THEN UVal(g.header.npart[p_type]) ELSE 0

\* mutant of get_start_part: the particles of the type itself counted in
get_start_part_incl(g, name, p_type) ==
    IF p_type = -1 THEN 0
    ELSE IF ~HasBlock(g, name) THEN 0
    ELSE SumUpTo([t \in Types |->
                    IF g.blocks[name].p_types[t]
                    THEN UVal(g.header.npart[t]) ELSE 0], p_type + 1)

\* GadgetFile.get_start_part, lines 386-394
get_start_part(g, name, p_type) ==
    IF p_type = -1 THEN 0
    ELSE IF ~HasBlock(g, name) THEN 0
    ELSE SumUpTo([t \in Types |->
                    IF g.blocks[name].p_types[t]
                    THEN UVal(g.header.npart[t]) ELSE 0], p_type)

\* GadgetFile.get_block_dims, lines 396-402
get_block_dims(g, name) ==
    IF ~HasBlock(g, name) THEN 0
    ELSE g.blocks[name].partlen \div ItemSize(g.blocks[name].data_type)

\* numpy.fromfile(fd, dtype, count) at pos: count elements of size bytes
\* each in the machine's order, fewer when the file ends
FromFile(file, pos, size, count) ==
    LET avail == IF pos >= Len(file) THEN 0 ELSE (Len(file) - pos) \div size
        n == Min2(count, avail)
    IN  [i \in 1 .. n |->
            Unpack("=", SubSeq(file, pos + (i - 1) * size + 1, pos + i * size))]

\* ndarray.byteswap(True)
byteswap(elems) == [i \in 1 .. Len(elems) |-> Rev(elems[i])]

\* GadgetFile.get_block, lines 356-374
get_block(g, file, name, p_type, p_toread) ==
    IF ~HasBlock(g, name) THEN [err |-> "KeyError"]
    ELSE LET cur_block == g.blocks[name]
             parts == get_block_parts(g, name, p_type)
             p_start == get_start_part(g, name, p_type)
             toread == IF p_toread > parts THEN parts ELSE p_toread
             size == ItemSize(cur_block.data_type)
             n_type == (toread * cur_block.partlen) \div size
             data == FromFile(file, cur_block.start + cur_block.partlen * p_start,
                              size, n_type)
         IN  [err |-> "", p_toread |-> toread,
              data |-> [dtype |-> cur_block.data_type,
                        elems |-> IF g.endian # "=" THEN byteswap(data) ELSE data]]

\* ndarray.astype between the integer types and within one type: int32 to
\* int64 extends the sign, int64 to int32 keeps the low four bytes.  The
\* conversion between float32 and float64 is not modelled: the module draws
\* float data in the width of the block only.
AsType(w, from, to) ==
    CASE from = to -> w
      [] from = "int32" /\ to = "int64" ->
            w \o (IF IsNeg(w) THEN <<255, 255, 255, 255>> ELSE Zeros(4))
      [] from = "int64" /\ to = "int32" -> SubSeq(w, 1, 4)

\* struct.pack('4s', name): cut or zero-padded to four bytes
Pack4s(name) == [i \in 1 .. 4 |-> IF i <= Len(name) THEN name[i] ELSE 0]

\* GadgetFile.write_block_footer, lines 488-490
write_block_footer(g, name, blocksize) == Pack(g.endian, Word(blocksize))

\* GadgetFile.write_block_header, lines 476-486.  In a format 1 object the
\* local head is read (head += ...) before it is ever assigned:
\* UnboundLocalError.
write_block_header(g, name, blocksize) ==
    IF g.format2
    THEN [err |-> "",
          head |-> Pack(g.endian, Word(8)) \o Pack4s(name)
                     \o Pack(g.endian, Word(blocksize + 2 * 4))
                     \o Pack(g.endian, Word(8))
                     \o write_block_footer(g, name, blocksize)]
    ELSE [err |-> "UnboundLocalError"]

\* fd.write(bs) on a file opened without "b": on a "crlf" platform each
\* byte 10 goes out as 13, 10
TextBytes(nl, bs) ==
    CHOOSE r \in
        {Flatten([i \in 1 .. Len(b) |->
                    IF nl = "crlf" /\ b[i] = 10 THEN <<13, 10>> ELSE <<b[i]>>]) :
         b \in {bs}} : TRUE

\* lines 496-497: the block header record of HEAD and the serialized fields
HeaderRecord(g, head) ==
    write_block_header(g, NameHEAD, 256).head \o serialize(head)

\* GadgetFile.write_header, lines 492-514, with filename = None.  The
\* result is the error raised ("" for none), the bytes of the file and the
\* header object passed, whose npart the call overwrites first.  nl is the
\* platform's line end, strict whether struct.pack refuses an integer out
\* of the range of its field; the file is opened "r+", without "b".
write_header(g, file, head, nl, strict) ==
    LET head1 == [head EXCEPT !.npart = g.header.npart]
        hd == write_block_header(g, NameHEAD, 256)
        data == TextBytes(nl, HeaderRecord(g, head1))
        file1 == WriteAt(file, 0, data)
        foot == TextBytes(nl, write_block_footer(g, NameHEAD, 256))
    IN  IF hd.err # ""
        THEN [err |-> hd.err, file |-> file, head |-> head1]
        ELSE IF strict /\ PacksNegative(head1)
        THEN [err |-> "struct.error", file |-> file, head |-> head1]
        ELSE [err |-> "", file |-> WriteAt(file1, Len(data) + 48, foot),
              head |-> head1]

\* mutant of WriteCapacity: one element more fits
WriteCapacity_plus(g, name, p_type) ==
    get_block_parts(g, name, p_type) * get_block_dims(g, name) + 1

\* line 418: the elements the addressed range takes
WriteCapacity(g, name, p_type) ==
    get_block_parts(g, name, p_type) * get_block_dims(g, name)

\* lines 439-445: the caller's array is byte-swapped in place when the file
\* is not in the machine's order, then converted to the block's type and
\* laid out as the machine holds it.  after is the caller's array as the
\* call leaves it, d the bytes to write.
SwapThenCast(g, big_data, dt) ==
    LET swapped == IF g.endian # "=" THEN byteswap(big_data.elems)
                   ELSE big_data.elems
        cast == [i \in 1 .. Len(swapped) |-> AsType(swapped[i], big_data.dtype, dt)]
    IN  [after |-> [big_data EXCEPT !.elems = swapped],
         d |-> Flatten([i \in 1 .. Len(cast) |-> Pack("=", cast[i])])]

\* GadgetFile.write_block, lines 405-454, with filename = None.  The result
\* is the error raised ("" for none), the bytes of the file and the
\* caller's array as the call leaves them.
write_block(g, file, name, p_type, big_data) ==
    IF ~HasBlock(g, name)
    THEN [err |-> "KeyError", file |-> file, data |-> big_data]
    ELSE LET cur_block == g.blocks[name]
             present == MaskSet(cur_block.p_types)
             MinType == MinOf(present)
             MaxType == CHOOSE x \in present : \A y \in present : y <= x
             p_start == get_start_part(g, name, p_type)
             dt == cur_block.data_type
             pos == cur_block.start + cur_block.partlen * p_start
             atstart == p_type = MinType \/ p_type < 0
             atend == p_type = MaxType \/ p_type < 0
             hd == write_block_header(g, name, cur_block.length)
             file1 == IF atstart THEN WriteAt(file, pos - Len(hd.head), hd.head)
                      ELSE file
             sc == SwapThenCast(g, big_data, dt)
             file2 == WriteAt(file1, pos, sc.d)
             file3 == IF atend
                      THEN WriteAt(file2, pos + Len(sc.d),
                                   write_block_footer(g, name, cur_block.length))
                      ELSE file2
         IN  IF present = {}
             THEN [err |-> "IndexError", file |-> file, data |-> big_data]
             ELSE IF Len(big_data.elems) > WriteCapacity(g, name, p_type)
             THEN [err |-> "ValueError", file |-> file, data |-> big_data]
             ELSE IF KindOf(big_data.dtype) # KindOf(dt)
             THEN [err |-> "ValueError", file |-> file, data |-> big_data]
             ELSE IF atstart /\ hd.err # ""
             THEN [err |-> hd.err, file |-> file, data |-> big_data]
             ELSE IF atstart /\ pos - Len(hd.head) < 0
             THEN [err |-> "IOError", file |-> file, data |-> big_data]
             ELSE IF Len(sc.d) # cur_block.length
             THEN [err |-> "Exception", file |-> file1, data |-> sc.after]
             ELSE [err |-> "", file |-> file3, data |-> sc.after]

(***************************************************************************)
(* GadgetSnap.  File names are sequences of characters, so that the        *)
(* slicing and the str(i) of the constructor act on them as on Python      *)
(* strings.  The object is the record snap: _filename, _files (the names   *)
(* of the accepted files, whose objects are in gf), header, and the locals *)
(* of the constructor while it runs (filename, files_expected, i, npart).  *)
(***************************************************************************)
Digits == <<"0", "1", "2", "3", "4", "5", "6", "7", "8", "9">>

RECURSIVE str(_)
\* str(i) of a number i >= 0: its decimal digits
str(i) ==
    IF i < 10 THEN <<Digits[i + 1]>>
    ELSE str(i \div 10) \o <<Digits[(i % 10) + 1]>>

\* s[:-n]
ButLast(s, n) == SubSeq(s, 1, Len(s) - n)

\* s[-2:]
LastTwo(s) == SubSeq(s, Max2(1, Len(s) - 1), Len(s))

Suffix0 == <<".", "0">>

\* line 539: filename = filename[:-1]+str(i)
NextName(filename, i) == ButLast(filename, 1) \o str(i)

\* uint32 + uint32 of numpy: the sum modulo 2**32
AddWord(a, b) ==
    LET s1 == a[1] + b[1]
        s2 == a[2] + b[2] + s1 \div 256
        s3 == a[3] + b[3] + s2 \div 256
        s4 == a[4] + b[4] + s3 \div 256
    IN  <<s1 % 256, s2 % 256, s3 % 256, s4 % 256>>

\* a double is a NaN: exponent bits all one, fraction not zero
IsNaN(w) ==
    /\ w[8] % 128 = 127 /\ w[7] \div 16 = 15
    /\ (w[7] % 16 # 0 \/ \E k \in 1 .. 6 : w[k] # 0)

\* == of two floats held as doubles: no NaN is equal to anything, the two
\* zeros are equal
FloatEq(a, b) ==
    /\ ~IsNaN(a) /\ ~IsNaN(b)
    /\ \/ a = b
       \/ \A k \in 1 .. 7 : a[k] = 0 /\ b[k] = 0

\* == of two integers held in words of any width
IntEq(a, b) ==
    \A k \in 1 .. Max2(Len(a), Len(b)) :
        (IF k <= Len(a) THEN a[k] ELSE IF IsNeg(a) THEN 255 ELSE 0)
            = (IF k <= Len(b) THEN b[k] ELSE IF IsNeg(b) THEN 255 ELSE 0)

\* GadgetSnap.check_headers, lines 638-658
check_headers(head1, head2) ==
    /\ FloatEq(head1.time, head2.time)
    /\ FloatEq(head1.redshift, head2.redshift)
    /\ IntEq(head1.flag_sfr, head2.flag_sfr)
    /\ IntEq(head1.flag_feedback, head2.flag_feedback)
    /\ IntEq(head1.num_files, head2.num_files)
    /\ FloatEq(head1.BoxSize, head2.BoxSize)
    /\ FloatEq(head1.Omega0, head2.Omega0)
    /\ FloatEq(head1.OmegaLambda, head2.OmegaLambda)
    /\ FloatEq(head1.HubbleParam, head2.HubbleParam)
    /\ IntEq(head1.flag_stellarage, head2.flag_stellarage)
    /\ IntEq(head1.flag_metals, head2.flag_metals)
    /\ \A t \in Types : FloatEq(head1.mass[t], head2.mass[t])
    /\ \A t \in Types : IntEq(head1.npartTotal[t], head2.npartTotal[t])

\* np.arange(1, files_expected) of a num_files read under "i"
FilesExpected(h) == IF IsNeg(h.num_files) THEN 0 ELSE UVal(h.num_files)

\* lines 527-538: the name is tried as given, then with ".0"; the first
\* file is opened and gives the number of files to expect
LoadFirst(dsk, arg) ==
    LET filename == IF arg \in DOMAIN dsk THEN arg ELSE arg \o Suffix0
        g == IF filename \in DOMAIN dsk
             THEN GadgetFile(filename, dsk[filename])
             ELSE [err |-> "IOError"]
    IN  IF g.err # ""
        THEN [snap |-> [pc |-> "failed", err |-> g.err, filename |-> filename,
                        opened |-> <<>>],
              file |-> g]
        ELSE [snap |-> [pc |-> "loop", err |-> "",
                        _filename |-> IF LastTwo(filename) = Suffix0
                                      THEN ButLast(filename, 2) ELSE arg,
                        filename |-> filename,
                        _files |-> <<filename>>,
                        opened |-> <<filename>>,
                        files_expected |-> FilesExpected(g.header),
                        i |-> 1,
                        npart |-> g.header.npart],
              file |-> g]

\* lines 539-546: one pass of the loop over the numbered files.  opened is
\* the names GadgetFile was called with, in order.
LoadPass(dsk, gfs, sn) ==
    LET filename == NextName(sn.filename, sn.i)
        tmp_file == IF filename \in DOMAIN dsk
                    THEN GadgetFile(filename, dsk[filename])
                    ELSE [err |-> "IOError"]
        tried == [sn EXCEPT !.filename = filename,
                            !.opened = Append(@, filename)]
    IN  IF tmp_file.err # ""
        THEN [snap |-> [pc |-> "failed", err |-> tmp_file.err,
                        filename |-> filename, opened |-> tried.opened],
              name |-> filename, file |-> tmp_file]
        ELSE IF ~check_headers(tmp_file.header, gfs[sn._files[1]].header)
        THEN [snap |-> [tried EXCEPT !.i = @ + 1],
              name |-> filename, file |-> tmp_file]
        ELSE [snap |-> [tried EXCEPT
                          !.i = @ + 1,
                          !._files = Append(@, filename),
                          !.npart = [t \in Types |->
                                       AddWord(@[t], tmp_file.header.npart[t])]],
              name |-> filename, file |-> tmp_file]

\* lines 548-558: the merged header is a copy of the first file's with the
\* summed counts; npart/2**32 of a uint32 array is 0 in int64, so NallHW
\* becomes 0 and npartTotal the summed counts, as int64; every accepted
\* file's header is handed the two arrays
MergedHeader(gfs, sn) ==
    [gfs[sn._files[1]].header EXCEPT
        !.npart = sn.npart,
        !.NallHW = [t \in Types |-> Zeros(8)],
        !.npartTotal = [t \in Types |-> sn.npart[t] \o Zeros(4)]]

RECURSIVE WriteHeaders(_, _, _, _, _, _, _)
\* lines 727-728: write_header of every file from the k-th on, with the one
\* header object head; the loop ends at the first error
WriteHeaders(dsk, gfs, names, k, head, nl, strict) ==
    IF k > Len(names) THEN [err |-> "", disk |-> dsk, head |-> head]
    ELSE LET r == write_header(gfs[names[k]], dsk[names[k]], head, nl, strict)
         IN  IF r.err # "" THEN [err |-> r.err, disk |-> dsk, head |-> r.head]
             ELSE CHOOSE w \in
                    {WriteHeaders(a[1], gfs, names, k + 1, a[2], nl, strict) :
                     a \in {<<[dsk EXCEPT ![names[k]] = r.file], r.head>>}} :
                    TRUE

\* GadgetSnap._write, lines 724-734, with filename = None, on a snapshot
\* whose files hold no block but HEAD and that holds no array: all_keys is
\* empty and the loop of lines 730-732 has nothing to write
snap_write(dsk, gfs, sn, nl, strict) ==
    WriteHeaders(dsk, gfs, sn._files, 1, sn.header, nl, strict)

(***************************************************************************)
(* The arrays of a snapshot.  A logical name is a sequence of bytes as a   *)
(* block name is.  The snapshot abstraction GadgetSnap derives from and    *)
(* the configuration are not part of this module's sources: the family to  *)
(* type mapping is taken as gas 0, dm 1, star 4, the name mapping of the   *)
(* configuration as empty, families() as the families that hold a          *)
(* particle, in the order gas, dm, star, and snap[name], snap[fam][name]   *)
(* as plain stores.  An array is a record of dtype, ndim (columns) and     *)
(* elems, the elements row after row.                                      *)
(***************************************************************************)
type_map == [gas |-> 0, dm |-> 1, star |-> 4]

FamilyOrder == <<"gas", "dm", "star">>

\* gadget_type, lines 51-56; "None" stands for None
gadget_type(fam) == IF fam = "None" THEN -1 ELSE type_map[fam]

\* str.lower() and str.upper()
Lower(name) ==
    [i \in 1 .. Len(name) |->
        IF name[i] \in 65 .. 90 THEN name[i] + 32 ELSE name[i]]

Upper(name) ==
    [i \in 1 .. Len(name) |->
        IF name[i] \in 97 .. 122 THEN name[i] - 32 ELSE name[i]]

RECURSIVE Strip(_)
\* str.strip(): the blanks at both ends removed
Strip(name) ==
    IF name = <<>> THEN <<>>
    ELSE IF name[1] = 32 THEN Strip(Tail(name))
    ELSE IF name[Len(name)] = 32 THEN Strip(SubSeq(name, 1, Len(name) - 1))
    ELSE name

\* line 741: (array_name.upper().ljust(4, " "))[0:4]
GName(array_name) == SubSeq(Upper(array_name) \o <<32, 32, 32, 32>>, 1, 4)

\* lines 572-576: the slice of every family in the merged counts
family_slice(npart) ==
    [f \in DOMAIN type_map |->
        [start |-> SumUpTo(npart, type_map[f]),
         stop |-> SumUpTo(npart, type_map[f] + 1)]]

\* SimSnap.families(): the families that hold a particle
families(sn) ==
    SelectSeq(FamilyOrder,
              LAMBDA f : sn._family_slice[f].start # sn._family_slice[f].stop)

\* the block keys of the accepted files (lines 579-580, before translation)
BlockKeys(gfs, files) ==
    UNION {DOMAIN gfs[files[k]].blocks : k \in 1 .. Len(files)}

\* lines 583-588 with an empty name mapping: logical name -> block name
name_map(gfs, files) ==
    LET keys == BlockKeys(gfs, files)
    IN  [mm \in {Strip(Lower(nn)) : nn \in keys} |->
            CHOOSE nn \in keys : Strip(Lower(nn)) = mm]

\* _translate_array_name(name), lines 42-49
translate(sn, name) ==
    IF name \in DOMAIN sn._name_map THEN sn._name_map[name] ELSE name

\* get_block_list, lines 616-629: b_list.update(f.blocks) leaves for every
\* key the block object of the last file that holds it
get_block_list(gfs, files, fams) ==
    LET keys == BlockKeys(gfs, files)
        last(nn) == CHOOSE k \in 1 .. Len(files) :
                        /\ HasBlock(gfs[files[k]], nn)
                        /\ \A j \in k + 1 .. Len(files) :
                              ~HasBlock(gfs[files[j]], nn)
    IN  [b_name \in {Strip(Lower(nn)) : nn \in keys} |->
            LET nn == CHOOSE nn \in keys : Strip(Lower(nn)) = b_name
                b == gfs[files[last(nn)]].blocks[nn]
            IN  {fams[i] : i \in {i \in 1 .. Len(fams) :
                                     b.p_types[type_map[fams[i]]]}}]

\* lines 563-593: what the constructor adds to the object after the header
SnapTables(gfs, sn, h) ==
    LET fs == family_slice([t \in Types |-> UVal(h.npart[t])])
        withfs == [_family_slice |-> fs]
    IN  [_family_slice |-> fs,
         _name_map |-> name_map(gfs, sn._files),
         _loadable_keys |-> DOMAIN name_map(gfs, sn._files),
         _block_list |-> get_block_list(gfs, sn._files, families(withfs)),
         _arrays |-> <<>>,
         _family_arrays |-> <<>>]

\* _family_has_loadable_array, lines 608-614: the answer, or the KeyError
\* of the lookup of a name no file holds
family_has_loadable_array(sn, fam, name) ==
    IF name \notin DOMAIN sn._block_list
    THEN [err |-> "KeyError", has |-> FALSE]
    ELSE IF fam # "None"
    THEN [err |-> "", has |-> fam \in sn._block_list[name]]
    ELSE [err |-> "",
          has |-> {families(sn)[i] : i \in 1 .. Len(families(sn))}
                      \subseteq sn._block_list[name]]

\* loadable_family_keys(), lines 596-602, with fam = None
loadable_family_keys(sn) ==
    {x \in sn._loadable_keys : ~family_has_loadable_array(sn, "None", x).has}

\* SimSnap.family_keys(): the names of the family arrays in memory
family_keys(sn) == {p[2] : p \in DOMAIN sn._family_arrays}

\* GadgetSnap.get_block_parts, lines 631-636
snap_get_block_parts(gfs, sn, name, fam) ==
    SumUpTo([i \in 0 .. Len(sn._files) - 1 |->
                get_block_parts(gfs[sn._files[i + 1]], name, gadget_type(fam))],
            Len(sn._files))

RECURSIVE ReadFiles(_, _, _, _, _, _)
\* lines 690-697: the rows of the files from the k-th on, appended in order
ReadFiles(dsk, gfs, files, k, g_name, p_type) ==
    IF k > Len(files) THEN <<>>
    ELSE LET f == gfs[files[k]]
             f_parts == get_block_parts(f, g_name, p_type)
             rest == ReadFiles(dsk, gfs, files, k + 1, g_name, p_type)
         IN  IF f_parts = 0 THEN rest
             ELSE get_block(f, dsk[files[k]], g_name, p_type, f_parts).data.elems
                      \o rest

\* mutant of load_array: the two errors of lines 673-676 exchanged
load_array_stated(dsk, gfs, sn, name, fam) ==
    LET has == family_has_loadable_array(sn, fam, name)
        g_name == translate(sn, name)
        first == gfs[sn._files[1]]
        ndim == get_block_dims(first, g_name)
        parts == snap_get_block_parts(gfs, sn, g_name, fam)
        elems == ReadFiles(dsk, gfs, sn._files, 1, g_name, gadget_type(fam))
        data == [dtype |-> first.blocks[g_name].data_type, ndim |-> ndim,
                 elems |-> elems]
    IN  IF has.err # "" THEN [err |-> has.err, snap |-> sn]
        ELSE IF ~has.has
        THEN [err |-> IF fam = "None" THEN "IOError" ELSE "KeyError",
              snap |-> sn]
        ELSE IF ~HasBlock(first, g_name) THEN [err |-> "KeyError", snap |-> sn]
        ELSE IF Len(elems) # parts * ndim
        THEN [err |-> "ValueError", snap |-> sn]
        ELSE IF fam = "None"
        THEN [err |-> "",
              snap |-> [sn EXCEPT !._arrays = (name :> data) @@ @]]
        ELSE [err |-> "",
              snap |-> [sn EXCEPT
                          !._family_arrays = (<<fam, name>> :> data) @@ @]]

\* _load_array, lines 669-700: the error raised ("" for none) and the
\* snapshot object as the call leaves it
load_array(dsk, gfs, sn, name, fam) ==
    LET has == family_has_loadable_array(sn, fam, name)
        g_name == translate(sn, name)
        first == gfs[sn._files[1]]
        ndim == get_block_dims(first, g_name)
        parts == snap_get_block_parts(gfs, sn, g_name, fam)
        elems == ReadFiles(dsk, gfs, sn._files, 1, g_name, gadget_type(fam))
        data == [dtype |-> first.blocks[g_name].data_type, ndim |-> ndim,
                 elems |-> elems]
    IN  IF has.err # "" THEN [err |-> has.err, snap |-> sn]
        ELSE IF ~has.has
        THEN [err |-> IF fam = "None" THEN "KeyError" ELSE "IOError",
              snap |-> sn]
        ELSE IF ~HasBlock(first, g_name) THEN [err |-> "KeyError", snap |-> sn]
        ELSE IF Len(elems) # parts * ndim
        THEN [err |-> "ValueError", snap |-> sn]
        ELSE IF fam = "None"
        THEN [err |-> "",
              snap |-> [sn EXCEPT !._arrays = (name :> data) @@ @]]
        ELSE [err |-> "",
              snap |-> [sn EXCEPT
                          !._family_arrays = (<<fam, name>> :> data) @@ @]]

\* a[s:e] on the rows of an array
Rows(a, s, e) ==
    LET n == Len(a.elems) \div a.ndim
        lo == Min2(s, n)
        hi == Max2(lo, Min2(e, n))
    IN  [a EXCEPT !.elems = SubSeq(a.elems, lo * a.ndim + 1, hi * a.ndim)]

\* the array a with the rows from s on replaced by elems: the slice passed
\* to write_block is a view of a, which byteswap(True) changes in place
SetRows(a, s, elems) ==
    [a EXCEPT !.elems =
        [i \in 1 .. Len(a.elems) |->
            IF i > s * a.ndim /\ i <= s * a.ndim + Len(elems)
            THEN elems[i - s * a.ndim] ELSE a.elems[i]]]

\* lines 745-746 and 772: f_parts of every file and the row s the slices
\* of file i start at
FileParts(gfs, sn, g_name) ==
    [i \in 1 .. Len(sn._files) |->
        get_block_parts(gfs[sn._files[i]], g_name, -1)]

SliceStart(f_parts, i) ==
    SumUpTo([j \in 0 .. Len(f_parts) - 1 |-> f_parts[j + 1]], i - 1)

\* lines 763-771: the calls of write_block in order, as pairs of the file
\* index and the family ("None" for the whole array)
WriteCalls(sn, array_name) ==
    LET fams == SelectSeq(families(sn),
                          LAMBDA f : <<f, array_name>> \in DOMAIN sn._family_arrays)
        family_names == loadable_family_keys(sn) \cup family_keys(sn)
        n == IF array_name \in family_names THEN Len(fams) ELSE 1
    IN  [c \in 1 .. Len(sn._files) * n |->
            [i |-> ((c - 1) \div n) + 1,
             fam |-> IF array_name \in family_names
                     THEN fams[((c - 1) % n) + 1] ELSE "None"]]

RECURSIVE WriteLoop(_, _, _, _, _, _, _, _)
\* the calls from the c-th on; the loop ends at the first error
WriteLoop(dsk, gfs, sn, array_name, f_parts, calls, c, fi) ==
    IF c > Len(calls) THEN [err |-> "", disk |-> dsk, snap |-> sn]
    ELSE LET i == calls[c].i
             fam == calls[c].fam
             s == SliceStart(f_parts, i)
             a == IF fam = "None" THEN sn._arrays[array_name]
                  ELSE sn._family_arrays[<<fam, array_name>>]
             n == sn._files[i]
         IN  IF ~fi THEN [err |-> "TypeError", disk |-> dsk, snap |-> sn]
             ELSE CHOOSE res \in
                    {IF r.err # ""
                     THEN [err |-> r.err,
                           disk |-> [dsk EXCEPT ![n] = r.file],
                           snap |-> r.snap]
                     ELSE WriteLoop([dsk EXCEPT ![n] = r.file], gfs, r.snap,
                                    array_name, f_parts, calls, c + 1, fi) :
                     r \in {[err |-> w.err, file |-> w.file,
                             snap |-> IF fam = "None"
                                      THEN [sn EXCEPT !._arrays[array_name] =
                                              SetRows(a, s, w.data.elems)]
                                      ELSE [sn EXCEPT
                                              !._family_arrays[<<fam, array_name>>] =
                                              SetRows(a, s, w.data.elems)]] :
                            w \in {write_block(gfs[n], dsk[n],
                                               GName(array_name), -1,
                                               Rows(a, s, s + f_parts[i]))}}} :
                    TRUE

\* _write_array, lines 738-772, with filename = None, for an array held in
\* memory: the error raised ("" for none), the files and the snapshot
\* object as the call leaves them.  Where no file holds a block of the
\* name, line 751 reads N_TYPES, a name the module does not define, and
\* the call ends there with NameError.  fi: the build's float_index.
write_array(dsk, gfs, sn, array_name, fi) ==
    LET g_name == GName(array_name)
        f_parts == FileParts(gfs, sn, g_name)
    IN  IF SliceStart(f_parts, Len(f_parts) + 1) = 0
        THEN [err |-> "NameError", disk |-> dsk, snap |-> sn]
        ELSE WriteLoop(dsk, gfs, sn, array_name, f_parts,
                       WriteCalls(sn, array_name), 1, fi)

(***************************************************************************)
(* Input files.  The operators of this section build the bytes of the      *)
(* files the specifications start from, as a simulation code writing in    *)
(* byte order e ("<" or ">") lays them out (section 6 of the               *)
(* specification: the file format).                                        *)
(***************************************************************************)
NoFile == [err |-> "none"]

\* no file, no file object and no snapshot
GadgetIdle ==
    /\ host = "little"
    /\ pack_masks = TRUE
    /\ newline = "lf"
    /\ float_index = TRUE
    /\ snap = [pc |-> "none"]
    /\ disk = <<>>
    /\ gf = <<>>
    /\ op = [pc |-> "off"]

FileIdle == GadgetIdle /\ SphIdle

\* a double / a float whose bytes tell the field it sits in
Tag8(n) == <<n, 0, 0, 0, 0, 0, 112, 63>>

Tag4(n) == <<n, 0, 96, 63>>

\* a header with the given counts (numbers), low and high global counts
\* (4-byte values) and file count; every other field holds a value of its
\* own
SampleHeader(counts, total, hw, nfiles) ==
    [npart |-> [t \in Types |-> Word(counts[t])],
     mass |-> [t \in Types |-> Tag8(10 + t)],
     time |-> Tag8(1), redshift |-> Tag8(2),
     flag_sfr |-> Word(1), flag_feedback |-> Word(0),
     npartTotal |-> total,
     flag_cooling |-> Word(1), num_files |-> Word(nfiles),
     BoxSize |-> Tag8(3), Omega0 |-> Tag8(4), OmegaLambda |-> Tag8(5),
     HubbleParam |-> Tag8(6),
     flag_stellarage |-> Word(0), flag_metals |-> Word(1),
     NallHW |-> hw,
     flag_entropy_instead_u |-> Word(0), flag_doubleprecision |-> Word(1),
     flag_ic_info |-> Word(3), lpt_scalingfactor |-> Tag4(7),
     endian |-> "="]

\* the 256 bytes of a HEAD payload: the 40 fields in byte order e, then
\* the 48 bytes of fill
HeadPayload(e, h, fill) ==
    Flatten([k \in 1 .. Len(HeaderFmt) |-> Pack(e, HeaderValues(h)[k])]) \o fill

\* one block of a format 2 file
Block2(e, name, payload) ==
    Pack(e, Word(8)) \o name \o Pack(e, Word(Len(payload) + 8))
        \o Pack(e, Word(8))
        \o Pack(e, Word(Len(payload))) \o payload \o Pack(e, Word(Len(payload)))

\* one block of a format 1 file
Block1(e, payload) ==
    Pack(e, Word(Len(payload))) \o payload \o Pack(e, Word(Len(payload)))

\* a payload of n bytes that count up from b
Ramp(b, n) == [i \in 1 .. n |-> (b + i) % 128]

FillZero == Zeros(48)

FillData == Ramp(60, 48)

(***************************************************************************)
(* SpecScan: the body of the scan loop of GadgetFile.__init__ (lines       *)
(* 179-238) for the blocks after HEAD.  The header counts are drawn in     *)
(* Init; each step scans one block whose name, stored length and footer    *)
(* are the file's.  scan.block is the GadgetBlock in hand; it is entered   *)
(* in self.blocks exactly when scan.pc = "recorded".                       *)
(***************************************************************************)
ScanNames == {NamePOS, NameID, NameRHO}

\* bytes per particle the writer of a file may have used
ScanWidths == {4, 8, 12, 24}

ScanIdle == scan = [pc |-> "off"]

ScanInit ==
    /\ FileIdle
    /\ \E npart \in [Types -> 0 .. MaxCount] :
          scan = [pc |-> "head", npart |-> npart, t_part |-> SumAll(npart)]

\* one pass of the loop body: lines 180-238
ScanBlock(name, length, foot) ==
    /\ scan.pc = "head"
    /\ length # 0
    /\ LET st == BlockStride(name, length, scan.t_part)
           blk == [name |-> name, length |-> length,
                   partlen |-> st.partlen, data_type |-> st.data_type]
           res == get_block_types(length, st.partlen, scan.npart)
       IN  scan' =
             IF foot # length
             THEN [pc |-> "corrupt", npart |-> scan.npart,
                   t_part |-> scan.t_part, block |-> blk]
             ELSE IF ~res.ok
             THEN [pc |-> "notypes", npart |-> scan.npart,
                   t_part |-> scan.t_part, block |-> blk]
             ELSE [pc |-> "recorded", npart |-> scan.npart,
                   t_part |-> scan.t_part,
                   block |-> [blk EXCEPT !.name = name] @@
                             [p_types |-> res.p_types]]
    /\ UNCHANGED filevars

\* a block whose footer repeats its stored length
ScanGood ==
    \E name \in ScanNames, w \in ScanWidths, k \in 1 .. MaxParts :
        ScanBlock(name, k * w, k * w)

\* a block whose footer differs from its stored length (line 231: IOError)
ScanCorrupt ==
    \E name \in ScanNames, k \in 1 .. MaxParts :
        ScanBlock(name, k * 4, k * 4 + 4)

ScanNext == ScanGood \/ ScanCorrupt

SpecScan == ScanInit /\ [][ScanNext]_vars

(***************************************************************************)
(* SpecFormat: GadgetFile(filename) and GadgetSnap._can_load(filename) on  *)
(* a file whose first four bytes are drawn from MagicBytes and whose rest  *)
(* is the rest of a well-formed file of either format in either order.     *)
(***************************************************************************)
MagicBytes == {0, 1, 8}

OneCount == [t \in Types |-> IF t = 1 THEN 2 ELSE 0]

OneHeader == SampleHeader(OneCount, [t \in Types |-> Word(OneCount[t])],
                          [t \in Types |-> Word(0)], 1)

\* HEAD and one POS block of two particles, self-describing
PlainFile2(e) ==
    Block2(e, NameHEAD, HeadPayload(e, OneHeader, FillData))
        \o Block2(e, NamePOS, Ramp(0, 24))

\* HEAD and one block of two particles, legacy, closed by an empty record
PlainFile1(e) ==
    Block1(e, HeadPayload(e, OneHeader, FillData))
        \o Block1(e, Ramp(0, 24)) \o Pack(e, Word(0))

PlainFiles == {PlainFile2("<"), PlainFile2(">"), PlainFile1("<"), PlainFile1(">")}

FormatInit ==
    /\ ScanIdle
    /\ snap = [pc |-> "none"]
    /\ host \in {"little", "big"}
    /\ pack_masks = TRUE
    /\ newline = "lf"
    /\ float_index = TRUE
    /\ SphIdle
    /\ \E first \in [1 .. 4 -> MagicBytes], body \in PlainFiles :
          disk = [f \in {"snap"} |-> first \o SubSeq(body, 5, Len(body))]
    /\ gf = [f \in {"snap"} |-> NoFile]
    /\ op = [pc |-> "start"]

\* GadgetFile("snap")
FormatOpen ==
    /\ op.pc = "start"
    /\ LET g == GadgetFile("snap", disk["snap"])
       IN  /\ gf' = [gf EXCEPT !["snap"] = IF g.err = "" THEN g ELSE NoFile]
           /\ op' = [pc |-> "opened", res |-> g]
    /\ UNCHANGED <<scan, snap, host, pack_masks, newline, float_index, kernel,
                   render, disk>>

\* GadgetSnap._can_load("snap")
FormatCanLoad ==
    /\ op.pc = "start"
    /\ op' = [pc |-> "can_load", res |-> can_load(disk["snap"])]
    /\ UNCHANGED <<scan, snap, host, pack_masks, newline, float_index, kernel,
                   render, disk, gf>>

FormatNext == FormatOpen \/ FormatCanLoad

SpecFormat == FormatInit /\ [][FormatNext]_vars

(***************************************************************************)
(* SpecOpen: GadgetFile(filename) on well-formed files of either format    *)
(* that hold HEAD and up to MaxBlocks blocks of two particles and end at   *)
(* a block boundary: at the physical end of the file, with an empty block  *)
(* header, or with a few stray bytes.                                      *)
(***************************************************************************)
MaxBlocks == 4

\* the names of the blocks after HEAD in a self-describing sample file
OpenNames == <<NamePOS, NameVEL, NameID, NameRHO, <<85, 32, 32, 32>>>>

\* bytes per particle of the k-th block after HEAD
OpenWidth(k) == IF k <= 2 THEN 12 ELSE 4

\* the k-th block after HEAD, holding two particles
OpenBlock(fmt, e, k) ==
    IF fmt = 2
    THEN Block2(e, OpenNames[k], Ramp(10 * k, 2 * OpenWidth(k)))
    ELSE Block1(e, Ramp(10 * k, 2 * OpenWidth(k)))

RECURSIVE OpenBlocks(_, _, _)
OpenBlocks(fmt, e, k) ==
    IF k = 0 THEN <<>>
    ELSE OpenBlocks(fmt, e, k - 1) \o OpenBlock(fmt, e, k)

\* what follows the last block footer
OpenEnding(fmt, e, ending) ==
    CASE ending = "eof" -> <<>>
      [] ending = "stray" -> <<1, 2, 3>>
      [] ending = "zero" ->
            IF fmt = 2
            THEN Pack(e, Word(8)) \o NameBlank \o Pack(e, Word(8))
                     \o Pack(e, Word(8)) \o Pack(e, Word(0))
            ELSE Pack(e, Word(0))

OpenFile(fmt, e, nb, ending) ==
    (IF fmt = 2
     THEN Block2(e, NameHEAD, HeadPayload(e, OneHeader, FillData))
     ELSE Block1(e, HeadPayload(e, OneHeader, FillData)))
        \o OpenBlocks(fmt, e, nb) \o OpenEnding(fmt, e, ending)

OpenInit ==
    /\ ScanIdle
    /\ snap = [pc |-> "none"]
    /\ host \in {"little", "big"}
    /\ pack_masks = TRUE
    /\ newline = "lf"
    /\ float_index = TRUE
    /\ SphIdle
    /\ gf = [f \in {"snap"} |-> NoFile]
    /\ \E fmt \in {1, 2}, e \in {"<", ">"}, nb \in 0 .. MaxBlocks,
          ending \in {"eof", "zero", "stray"} :
          /\ disk = [f \in {"snap"} |-> OpenFile(fmt, e, nb, ending)]
          /\ op = [pc |-> "start", fmt |-> fmt, e |-> e, nb |-> nb,
                   ending |-> ending]

\* GadgetFile("snap"): the constructed object, or the object as it was when
\* the constructor raised
OpenScan ==
    /\ op.pc = "start"
    /\ \E g \in {GadgetFile("snap", disk["snap"])} :
          /\ gf' = [gf EXCEPT !["snap"] = IF g.err = "" THEN g ELSE NoFile]
          /\ op' = [res |-> g] @@ [op EXCEPT !.pc = "opened"]
    /\ UNCHANGED <<scan, snap, host, pack_masks, newline, float_index, kernel,
                   render, disk>>

OpenNext == OpenScan

SpecOpen == OpenInit /\ [][OpenNext]_vars

(***************************************************************************)
(* SpecBigScan: the loop of GadgetFile.__init__ on a self-describing file  *)
(* whose blocks reach 2**32 bytes.  Particle counts are multiples of 2**24 *)
(* and are held in units of 2**24 particles, lengths in units of 2**24     *)
(* bytes, so that 2**32 bytes are WrapUnits units; the rules of the scan   *)
(* compare products of counts and bytes per particle only, which the unit  *)
(* leaves as they are.  A block of the file is its name, the bytes per     *)
(* particle it was written with and the types it holds; its length field   *)
(* and its footer hold its length modulo 2**32.  The payloads hold no word *)
(* equal to the length field of their block.                               *)
(***************************************************************************)
WrapUnits == 256

MaxUnits == 64

BigCounts == {n \in 0 .. MaxUnits : n % 16 = 0}

\* the bytes of block b of a file with the counts npart
TrueLen(b, npart) == b.width * SumAll([t \in Types |->
                                          IF t \in b.holds THEN npart[t] ELSE 0])

\* the files: POS and ID of every particle, RHO of the gas
BigFile(npart, pw, iw) ==
    <<[name |-> NamePOS, width |-> pw, holds |-> Types],
      [name |-> NameID, width |-> iw, holds |-> Types]>>
        \o (IF npart[0] > 0
            THEN <<[name |-> NameRHO, width |-> 4, holds |-> {0}]>>
            ELSE <<>>)

BigInit ==
    /\ host = "little"
    /\ pack_masks = TRUE
    /\ newline = "lf"
    /\ float_index = TRUE
    /\ snap = [pc |-> "none"]
    /\ disk = <<>>
    /\ gf = <<>>
    /\ op = [pc |-> "off"]
    /\ SphIdle
    /\ \E g \in BigCounts, d \in BigCounts, pw \in {12, 24}, iw \in {4, 8} :
       \E npart \in {[t \in Types |-> IF t = 0 THEN g
                                      ELSE IF t = 1 THEN d ELSE 0]} :
          /\ g + d > 0
          /\ scan = [pc |-> "scan", npart |-> npart, t_part |-> SumAll(npart),
                     file |-> BigFile(npart, pw, iw), k |-> 1,
                     blocks |-> <<>>, err |-> ""]

\* lines 180-238: one pass of the loop on the block the file position is
\* at.  The length read is the stored one; line 182 ends the scan on 0;
\* lines 225-229 seek by t_part * partlen when that is 2**32 or more; the
\* footer is then read where the seek ended (lines 230-232).
BigScanBlock ==
    /\ scan.pc = "scan"
    /\ scan.k <= Len(scan.file)
    /\ \E b \in {scan.file[scan.k]} :
       \E true \in {TrueLen(b, scan.npart)} :
       \E stored \in {true % WrapUnits} :
       \E st \in {BlockStride(b.name, stored, scan.t_part)} :
       \E extra_len \in {scan.t_part * st.partlen} :
       \E seek \in {IF extra_len >= WrapUnits THEN extra_len ELSE stored} :
       \E length \in {IF extra_len >= WrapUnits THEN extra_len ELSE stored} :
       \E res \in {get_block_types(length, st.partlen, scan.npart)} :
          scan' =
            IF stored = 0
            THEN [scan EXCEPT !.pc = "done"]
            ELSE IF seek # true
            THEN [scan EXCEPT !.pc = "failed", !.err = "IOError"]
            ELSE IF ~res.ok
            THEN [scan EXCEPT !.pc = "failed", !.err = "ValueError"]
            ELSE [scan EXCEPT
                    !.k = @ + 1,
                    !.blocks = (b.name :>
                                  [index |-> scan.k, length |-> length,
                                   partlen |-> st.partlen,
                                   data_type |-> st.data_type,
                                   p_types |-> res.p_types]) @@ @]
    /\ UNCHANGED filevars

\* lines 334-338, 182: the end of the file ends the scan
BigScanEnd ==
    /\ scan.pc = "scan"
    /\ scan.k > Len(scan.file)
    /\ scan' = [scan EXCEPT !.pc = "done"]
    /\ UNCHANGED filevars

BigScanNext == BigScanBlock \/ BigScanEnd

SpecBigScan == BigInit /\ [][BigScanNext]_vars

(***************************************************************************)
(* SpecBlockIO: one opened file; write_block with a name, a particle type  *)
(* and a data array, then get_block of the same range.                     *)
(* A format 2 file holds HEAD, POS (float32 x 3, every particle), ID       *)
(* (int32, every particle) and, when there is gas, RHO (float32, type 0    *)
(* only).  A format 1 file holds HEAD, one block of 4 bytes per particle   *)
(* and the empty record that ends the scan.                                *)
(***************************************************************************)
IOCounts ==
    {c \in [Types -> 0 .. MaxIO] :
        /\ \A t \in Types : t > 1 => c[t] = 0
        /\ c[0] + c[1] >= 1}

IOHeader(c) ==
    SampleHeader(c, [t \in Types |-> Word(c[t])], [t \in Types |-> Word(0)], 1)

IOFile2(e, c) ==
    Block2(e, NameHEAD, HeadPayload(e, IOHeader(c), FillData))
        \o Block2(e, NamePOS, Ramp(0, 12 * SumAll(c)))
        \o Block2(e, NameID, Ramp(40, 4 * SumAll(c)))
        \o (IF c[0] > 0 THEN Block2(e, NameRHO, Ramp(80, 4 * c[0])) ELSE <<>>)

IOFile1(e, c) ==
    Block1(e, HeadPayload(e, IOHeader(c), FillData))
        \o Block1(e, Ramp(0, 4 * SumAll(c))) \o Pack(e, Word(0))

IOFiles ==
    {IOFile2(e, c) : e \in {"<", ">"}, c \in IOCounts}
        \cup {IOFile1(e, c) : e \in {"<", ">"}, c \in IOCounts}

\* element i of a sample array: small numbers, every second one negative
SampleElem(dtype, i) ==
    CASE dtype = "int32" ->
            IF i % 2 = 0 THEN <<256 - i, 255, 255, 255>> ELSE Word(i)
      [] dtype = "int64" ->
            IF i % 2 = 0 THEN <<256 - i, 255, 255, 255, 255, 255, 255, 255>>
            ELSE Word(i) \o Zeros(4)
      [] dtype = "float32" -> Tag4(i)

SampleData(dtype, n) ==
    [dtype |-> dtype, elems |-> [i \in 1 .. n |-> SampleElem(dtype, i)]]

\* the names write_block is called with: the blocks of the file and one
\* name no file of the module holds
IONames(g) == DOMAIN g.blocks \cup {NameVEL}

\* the sizes of the arrays passed for a range of capacity cap
IOSizes(cap) == {n \in {1, cap - 1, cap, cap + 1} : n >= 0}

BlockIOInit ==
    /\ ScanIdle
    /\ snap = [pc |-> "none"]
    /\ host \in {"little", "big"}
    /\ pack_masks = TRUE
    /\ newline = "lf"
    /\ float_index = TRUE
    /\ SphIdle
    /\ \E file \in IOFiles :
          /\ disk = [f \in {"snap"} |-> file]
          /\ gf = [f \in {"snap"} |-> GadgetFile("snap", file)]
    /\ gf["snap"].err = ""
    /\ op = [pc |-> "start"]

\* gf["snap"].write_block(name, p_type, big_data)
WriteBlock(name, p_type, big_data) ==
    /\ op.pc = "start"
    /\ LET g == gf["snap"]
           r == write_block(g, disk["snap"], name, p_type, big_data)
       IN  /\ disk' = [disk EXCEPT !["snap"] = r.file]
           /\ op' = [pc |-> "written", name |-> name, p_type |-> p_type,
                     data |-> big_data, err |-> r.err, after |-> r.data,
                     before |-> disk["snap"]]
    /\ UNCHANGED <<scan, snap, host, pack_masks, newline, float_index, kernel,
                   render, gf>>

BlockIOWrite ==
    \E name \in IONames(gf["snap"]), p_type \in {-1, 0, 1, 2},
       dtype \in {"int32", "int64", "float32"} :
        \E n \in IOSizes(get_block_parts(gf["snap"], name, p_type)
                            * get_block_dims(gf["snap"], name)) :
            WriteBlock(name, p_type, SampleData(dtype, n))

\* gf["snap"].get_block(name, p_type, capacity) for the range just written
BlockIOReadBack ==
    /\ op.pc = "written"
    /\ HasBlock(gf["snap"], op.name)
    /\ LET g == gf["snap"]
           r == get_block(g, disk["snap"], op.name, op.p_type,
                          get_block_parts(g, op.name, op.p_type))
       IN  op' = [op EXCEPT !.pc = "read"] @@ [read |-> r]
    /\ UNCHANGED <<scan, snap, host, pack_masks, newline, float_index, kernel,
                   render, disk, gf>>

BlockIONext == BlockIOWrite \/ BlockIOReadBack

SpecBlockIO == BlockIOInit /\ [][BlockIONext]_vars

(***************************************************************************)
(* SpecGetBlock: one opened file of SpecBlockIO and one get_block call     *)
(* with a name, a particle type and a largest number of particles.         *)
(***************************************************************************)
\* the largest counts passed for a range of parts particles
GetCounts(parts) == 0 .. parts + 1

\* gf["snap"].get_block(name, p_type, p_toread)
GetBlock ==
    /\ op.pc = "start"
    /\ \E name \in IONames(gf["snap"]), p_type \in {-1, 0, 1, 2} :
          \E p_toread \in GetCounts(get_block_parts(gf["snap"], name, p_type)) :
              \E r \in {get_block(gf["snap"], disk["snap"], name, p_type,
                                  p_toread)} :
                  op' = [pc |-> "got", name |-> name, p_type |-> p_type,
                         p_toread |-> p_toread, res |-> r]
    /\ UNCHANGED <<scan, snap, host, pack_masks, newline, float_index, kernel,
                   render, disk, gf>>

GetBlockNext == GetBlock

SpecGetBlock == BlockIOInit /\ [][GetBlockNext]_vars

(***************************************************************************)
(* SpecAddBlock: one opened file and a sequence of add_file_block calls.   *)
(* The files are those of SpecBlockIO and a format 2 file of HEAD alone,   *)
(* whose block table is empty.                                             *)
(***************************************************************************)
\* largest number of add_file_block calls on one object
MaxAdds == 2

\* the names add_file_block is called with: two new names and one name the
\* format 2 files hold
AddNames == {NameVEL, <<85, 32, 32, 32>>, NamePOS}

\* the block sizes passed, in bytes
AddSizes == {0, 8, 24}

\* the table entry with the highest start, max(self.blocks.values(), key=st),
\* line 463
LastBlock(blocks) ==
    CHOOSE b \in {blocks[n] : n \in DOMAIN blocks} :
        \A n \in DOMAIN blocks : blocks[n].start <= b.start

\* GadgetFile.add_file_block, lines 456-474, with p_types left at -1.  max()
\* of an empty table raises ValueError.
add_file_block(g, name, blocksize, partlen, dtype) ==
    IF HasBlock(g, name) THEN [err |-> "KeyError", g |-> g]
    ELSE IF DOMAIN g.blocks = {} THEN [err |-> "ValueError", g |-> g]
    ELSE LET lb == LastBlock(g.blocks)
             block == [start |-> lb.start + lb.length + 6 * 4,
                       length |-> blocksize, partlen |-> partlen,
                       data_type |-> dtype, p_types |-> OnlyTypes(Types)]
         IN  [err |-> "", g |-> [g EXCEPT !.blocks = (name :> block) @@ @]]

AddFiles ==
    IOFiles \cup
        {Block2(e, NameHEAD, HeadPayload(e, IOHeader(c), FillData)) :
            e \in {"<", ">"}, c \in {[t \in Types |-> IF t = 0 THEN 1 ELSE 0]}}

AddBlockInit ==
    /\ ScanIdle
    /\ snap = [pc |-> "none"]
    /\ host \in {"little", "big"}
    /\ pack_masks = TRUE
    /\ newline = "lf"
    /\ float_index = TRUE
    /\ SphIdle
    /\ \E file \in AddFiles :
          /\ disk = [f \in {"snap"} |-> file]
          /\ gf = [f \in {"snap"} |-> GadgetFile("snap", file)]
          /\ op = [pc |-> "opened", n |-> 0, name |-> <<>>, blocksize |-> 0,
                   err |-> "", before |-> <<>>, opened |-> file]
    /\ gf["snap"].err = ""

\* gf["snap"].add_file_block(name, blocksize, partlen, dtype)
AddFileBlock ==
    /\ op.n < MaxAdds
    /\ \E name \in AddNames, blocksize \in AddSizes,
          w \in {<<4, "float32">>, <<8, "int64">>} :
          \E r \in {add_file_block(gf["snap"], name, blocksize, w[1], w[2])} :
              /\ gf' = [gf EXCEPT !["snap"] = r.g]
              /\ op' = [op EXCEPT !.pc = "added", !.n = @ + 1,
                                  !.name = name, !.blocksize = blocksize,
                                  !.err = r.err,
                                  !.before = gf["snap"].blocks]
    /\ UNCHANGED <<scan, snap, host, pack_masks, newline, float_index, kernel,
                   render, disk>>

AddBlockNext == AddFileBlock

SpecAddBlock == AddBlockInit /\ [][AddBlockNext]_vars

(***************************************************************************)
(* SpecHeader: a format 2 file of HEAD and POS is opened, its header is    *)
(* written back with write_header, and the file is opened again.  The      *)
(* files differ in byte order, counts, fill bytes, a total count with the  *)
(* top bit set, and in whether a header field holds the byte 10.           *)
(***************************************************************************)
HdrCounts ==
    {c \in [Types -> 0 .. MaxCount] :
        /\ \A t \in Types : t > 1 => c[t] = 0
        /\ c[0] >= 1 /\ c[1] = c[0] - 1}

\* a 32-bit word with the top bit set: as an unsigned total 2**31, as the
\* int32 the header object holds it -2**31
TopBitWord == <<0, 0, 0, 128>>

HdrHeader(c, top, ten) ==
    [SampleHeader(c,
        [t \in Types |-> IF top /\ t = 0 THEN TopBitWord ELSE Word(c[t])],
        [t \in Types |-> Word(0)], 1)
     EXCEPT !.mass = [t \in Types |->
                        IF t = 0 /\ ~ten THEN Tag8(20) ELSE Tag8(10 + t)]]

HdrFile(e, c, top, ten, fill) ==
    Block2(e, NameHEAD, HeadPayload(e, HdrHeader(c, top, ten), fill))
        \o Block2(e, NamePOS, Ramp(0, 12 * SumAll(c)))

HdrFiles ==
    {HdrFile(e, c, top, ten, fill) :
        e \in {"<", ">"}, c \in HdrCounts, top \in BOOLEAN, ten \in BOOLEAN,
        fill \in {FillZero, FillData}}

HeaderInit ==
    /\ ScanIdle
    /\ snap = [pc |-> "none"]
    /\ host \in {"little", "big"}
    /\ pack_masks \in BOOLEAN
    /\ newline \in {"lf", "crlf"}
    /\ float_index = TRUE
    /\ SphIdle
    /\ \E file \in HdrFiles :
          /\ disk = [f \in {"snap"} |-> file]
          /\ gf = [f \in {"snap"} |-> GadgetFile("snap", file)]
    /\ gf["snap"].err = ""
    /\ op = [pc |-> "opened", first |-> gf["snap"].header,
             before |-> disk["snap"]]

\* gf["snap"].write_header(gf["snap"].header)
HeaderWrite ==
    /\ op.pc = "opened"
    /\ \E r \in {write_header(gf["snap"], disk["snap"], gf["snap"].header,
                              newline, ~pack_masks)} :
          /\ disk' = [disk EXCEPT !["snap"] = r.file]
          /\ gf' = [gf EXCEPT !["snap"].header = r.head]
          /\ op' = [op EXCEPT !.pc = "written"] @@ [err |-> r.err]
    /\ UNCHANGED <<scan, snap, host, pack_masks, newline, float_index, kernel,
                   render>>

\* GadgetFile("snap") once more
HeaderReopen ==
    /\ op.pc = "written"
    /\ gf' = [gf EXCEPT !["snap"] = GadgetFile("snap", disk["snap"])]
    /\ op' = [op EXCEPT !.pc = "reopened"]
    /\ UNCHANGED <<scan, snap, host, pack_masks, newline, float_index, kernel,
                   render, disk>>

HeaderNext == HeaderWrite \/ HeaderReopen

SpecHeader == HeaderInit /\ [][HeaderNext]_vars

(***************************************************************************)
(* SpecSnap: a snapshot of F files s.0 .. s.(F-1), each the header alone,  *)
(* whose headers agree and declare F files; the constructor of GadgetSnap  *)
(* is run on the name with or without ".0", pass by pass, and _write is    *)
(* called on the loaded snapshot.  The files are little-endian but for     *)
(* file 1, which is in either order; file 1 holds 2 or 10 particles of     *)
(* type 0.  Further snapshots have three files of which one differs in one *)
(* header field, or two files of 2**31 particles each.                     *)
(***************************************************************************)
Base == <<"s">>

NameOf(i) == Base \o <<".">> \o str(i)

SnapCounts(i, c1) ==
    [t \in Types |-> IF t = 0 THEN (IF i = 1 THEN c1 ELSE 1)
                     ELSE IF t = 1 THEN 1 ELSE 0]

SnapTotals(F, c1) ==
    [t \in Types |-> IF t = 0 THEN Word(IF F = 1 THEN 1 ELSE F - 1 + c1)
                     ELSE IF t = 1 THEN Word(F) ELSE Word(0)]

SnapFile(i, F, e0, e1, c1) ==
    LET e == IF i = 1 THEN e1 ELSE e0
    IN  Block2(e, NameHEAD,
               HeadPayload(e, SampleHeader(SnapCounts(i, c1), SnapTotals(F, c1),
                                           [t \in Types |-> Word(0)], F),
                           FillData))

SnapDisk(F, e0, e1, c1) ==
    [n \in {NameOf(i) : i \in 0 .. F - 1} |->
        SnapFile(CHOOSE i \in 0 .. F - 1 : NameOf(i) = n, F, e0, e1, c1)]

\* the header fields one file of a snapshot may differ in
HeaderVariants ==
    {"time", "redshift", "flag_sfr", "flag_feedback", "flag_cooling",
     "flag_metals", "flag_stellarage", "num_files", "BoxSize", "Omega0",
     "OmegaLambda", "HubbleParam", "mass", "npartTotal", "NallHW",
     "flag_entropy_instead_u"}

\* the header h with the field v given another value
Vary(h, v) ==
    CASE v = "time" -> [h EXCEPT !.time = Tag8(21)]
      [] v = "redshift" -> [h EXCEPT !.redshift = Tag8(22)]
      [] v = "flag_sfr" -> [h EXCEPT !.flag_sfr = Word(0)]
      [] v = "flag_feedback" -> [h EXCEPT !.flag_feedback = Word(1)]
      [] v = "flag_cooling" -> [h EXCEPT !.flag_cooling = Word(0)]
      [] v = "flag_metals" -> [h EXCEPT !.flag_metals = Word(0)]
      [] v = "flag_stellarage" -> [h EXCEPT !.flag_stellarage = Word(1)]
      [] v = "num_files" -> [h EXCEPT !.num_files = Word(2)]
      [] v = "BoxSize" -> [h EXCEPT !.BoxSize = Tag8(23)]
      [] v = "Omega0" -> [h EXCEPT !.Omega0 = Tag8(24)]
      [] v = "OmegaLambda" -> [h EXCEPT !.OmegaLambda = Tag8(25)]
      [] v = "HubbleParam" -> [h EXCEPT !.HubbleParam = Tag8(26)]
      [] v = "mass" -> [h EXCEPT !.mass[1] = Tag8(27)]
      [] v = "npartTotal" -> [h EXCEPT !.npartTotal[1] = Word(9)]
      [] v = "NallHW" -> [h EXCEPT !.NallHW[1] = Word(1)]
      [] v = "flag_entropy_instead_u" ->
            [h EXCEPT !.flag_entropy_instead_u = Word(1)]

\* three little-endian files; the header of file `at` differs from the
\* others in the field v
VariantDisk(v, at) ==
    [n \in {NameOf(i) : i \in 0 .. 2} |->
        LET i == CHOOSE i \in 0 .. 2 : NameOf(i) = n
            h == SampleHeader(SnapCounts(i, 2), SnapTotals(3, 2),
                              [t \in Types |-> Word(0)], 3)
        IN  Block2("<", NameHEAD,
                   HeadPayload("<", IF i = at THEN Vary(h, v) ELSE h,
                               FillData))]

\* two little-endian files that hold 2**31 particles of type 0 each and
\* one particle of type 1: the totals are 2**32 and 2
BigDisk ==
    [n \in {NameOf(i) : i \in 0 .. 1} |->
        Block2("<", NameHEAD,
               HeadPayload("<",
                   [SampleHeader([t \in Types |-> IF t = 1 THEN 1 ELSE 0],
                                 [t \in Types |-> Word(IF t = 1 THEN 2 ELSE 0)],
                                 [t \in Types |-> Word(IF t = 0 THEN 1 ELSE 0)],
                                 2)
                    EXCEPT !.npart[0] = TopBitWord],
                   FillData))]

SnapDisks ==
    {SnapDisk(F, "<", e1, c1) :
        F \in 1 .. MaxFiles, e1 \in {"<", ">"}, c1 \in {2, 10}}
        \cup {VariantDisk(v, at) : v \in HeaderVariants, at \in {1, 2}}
        \cup {BigDisk}

SnapInit ==
    /\ ScanIdle
    /\ host \in {"little", "big"}
    /\ pack_masks = TRUE
    /\ newline \in {"lf", "crlf"}
    /\ float_index = TRUE
    /\ SphIdle
    /\ disk \in SnapDisks
    /\ gf = [n \in DOMAIN disk |-> NoFile]
    /\ snap = [pc |-> "new"]
    /\ \E arg \in {Base, Base \o Suffix0} : op = [pc |-> "start", arg |-> arg]

\* GadgetSnap(op.arg) up to the first file
SnapLoadFirst ==
    /\ snap.pc = "new"
    /\ \E r \in {LoadFirst(disk, op.arg)} :
          /\ snap' = r.snap
          /\ gf' = IF r.snap.filename \in DOMAIN gf
                   THEN [gf EXCEPT ![r.snap.filename] = r.file] ELSE gf
    /\ UNCHANGED <<scan, host, pack_masks, newline, float_index, kernel,
                   render, disk, op>>

\* one pass of the loop over the files 1 .. files_expected - 1
SnapLoadPass ==
    /\ snap.pc = "loop"
    /\ snap.i < snap.files_expected
    /\ \E r \in {LoadPass(disk, gf, snap)} :
          /\ snap' = r.snap
          /\ gf' = IF r.name \in DOMAIN gf
                   THEN [gf EXCEPT ![r.name] = r.file] ELSE gf
    /\ UNCHANGED <<scan, host, pack_masks, newline, float_index, kernel,
                   render, disk, op>>

\* the rest of the constructor, once the loop has ended
SnapLoadFinish ==
    /\ snap.pc = "loop"
    /\ snap.i >= snap.files_expected
    /\ \E h \in {MergedHeader(gf, snap)} :
          /\ snap' = [pc |-> "done", err |-> "", _filename |-> snap._filename,
                      _files |-> snap._files, opened |-> snap.opened,
                      header |-> h] @@ SnapTables(gf, snap, h)
          /\ gf' = [n \in DOMAIN gf |->
                      IF \E k \in 1 .. Len(snap._files) : snap._files[k] = n
                      THEN [gf[n] EXCEPT !.header.npartTotal = h.npartTotal,
                                         !.header.NallHW = h.NallHW]
                      ELSE gf[n]]
    /\ UNCHANGED <<scan, host, pack_masks, newline, float_index, kernel,
                   render, disk, op>>

\* snap._write() with the counts of the shared header as loaded, or set by
\* the caller to 7 of every type
SnapWrite ==
    /\ snap.pc = "done"
    /\ op.pc = "start"
    /\ \E shared \in {snap.header.npart, [t \in Types |-> Word(7)]} :
       \E r \in {snap_write(disk, gf,
                            [snap EXCEPT !.header.npart = shared],
                            newline, ~pack_masks)} :
          /\ disk' = r.disk
          /\ snap' = [snap EXCEPT !.header = r.head]
          /\ op' = [pc |-> "wrote", arg |-> op.arg, err |-> r.err,
                    shared |-> shared, before |-> disk]
    /\ UNCHANGED <<scan, host, pack_masks, newline, float_index, kernel,
                   render, gf>>

SnapNext == SnapLoadFirst \/ SnapLoadPass \/ SnapLoadFinish \/ SnapWrite

SpecSnap == SnapInit /\ [][SnapNext]_vars

(***************************************************************************)
(* SpecArrays: a snapshot whose files hold a POS block of every particle   *)
(* and a RHO block of some is loaded; arrays are then read with            *)
(* _load_array, assigned by the caller and written with _write_array, at   *)
(* most MaxOps calls in all.                                               *)
(***************************************************************************)
MaxOps == 3

\* the counts of a file from its gas, dm and star counts
FamilyCounts(c) ==
    [t \in Types |-> IF t = 0 THEN c[1] ELSE IF t = 1 THEN c[2]
                     ELSE IF t = 4 THEN c[3] ELSE 0]

\* the files of the sample snapshots: the gas, dm and star counts of each
\* file and the number of rows of its RHO block (0: no block)
ArrayShapes ==
    {<<[c |-> <<1, 4, 2>>, rho |-> 3]>>,
     <<[c |-> <<1, 4, 2>>, rho |-> 3], [c |-> <<2, 4, 1>>, rho |-> 3]>>,
     <<[c |-> <<2, 1, 0>>, rho |-> 2]>>,
     <<[c |-> <<2, 0, 0>>, rho |-> 2]>>,
     <<[c |-> <<1, 4, 2>>, rho |-> 3], [c |-> <<1, 1, 0>>, rho |-> 0]>>}

\* file i of a snapshot of the shape sh, in byte order e
ArrayFile(e, sh, i) ==
    LET c == FamilyCounts(sh[i + 1].c)
    IN  Block2(e, NameHEAD,
               HeadPayload(e, SampleHeader(c, [t \in Types |-> Word(9)],
                                           [t \in Types |-> Word(0)], Len(sh)),
                           FillData))
            \o Block2(e, NamePOS, Ramp(50 * i, 12 * SumAll(c)))
            \o (IF sh[i + 1].rho > 0
                THEN Block2(e, NameRHO, Ramp(50 * i + 30, 4 * sh[i + 1].rho))
                ELSE <<>>)

ArrayDisk(e, sh) ==
    [n \in {NameOf(i) : i \in 0 .. Len(sh) - 1} |->
        ArrayFile(e, sh, CHOOSE i \in 0 .. Len(sh) - 1 : NameOf(i) = n)]

\* the logical names the calls are made with: the two blocks, and two names
\* no file holds a block of
NamePos == <<112, 111, 115>>
NameRho == <<114, 104, 111>>
NameTem == <<116, 101, 109>>
NameXyz == <<120, 121, 122>>

ArraysInit ==
    /\ ScanIdle
    /\ host = "little"
    /\ pack_masks = TRUE
    /\ newline = "lf"
    /\ float_index \in BOOLEAN
    /\ SphIdle
    /\ \E e \in {"<", ">"}, sh \in ArrayShapes : disk = ArrayDisk(e, sh)
    /\ gf = [n \in DOMAIN disk |-> NoFile]
    /\ snap = [pc |-> "new"]
    /\ op = [pc |-> "start", arg |-> Base, n |-> 0]

\* snap._load_array(name, fam)
ArrayRead ==
    /\ snap.pc = "done"
    /\ op.n < MaxOps
    /\ \E name \in {NamePos, NameRho, NameXyz},
          fam \in {"None", "gas", "dm", "star"} :
       \E r \in {load_array(disk, gf, snap, name, fam)} :
          /\ snap' = r.snap
          /\ op' = [pc |-> "read", arg |-> op.arg, n |-> op.n + 1,
                    name |-> name, fam |-> fam, err |-> r.err,
                    before |-> [disk |-> disk, snap |-> snap]]
    /\ UNCHANGED <<scan, host, pack_masks, newline, float_index, kernel,
                   render, disk, gf>>

\* the caller's snap[name] = data or snap[fam][name] = data for a quantity
\* no file holds: one float32 per particle of the snapshot or the family
ArraySet ==
    /\ snap.pc = "done"
    /\ op.n < MaxOps
    /\ \E fam \in {"None"} \cup {families(snap)[i] :
                                    i \in 1 .. Len(families(snap))} :
       \E rows \in {IF fam = "None" THEN SumAll(Counts(snap.header))
                    ELSE snap._family_slice[fam].stop
                             - snap._family_slice[fam].start} :
       \E data \in {[dtype |-> "float32", ndim |-> 1,
                     elems |-> SampleData("float32", rows).elems]} :
          /\ snap' = IF fam = "None"
                     THEN [snap EXCEPT !._arrays = (NameTem :> data) @@ @]
                     ELSE [snap EXCEPT !._family_arrays =
                                           (<<fam, NameTem>> :> data) @@ @]
          /\ op' = [pc |-> "set", arg |-> op.arg, n |-> op.n + 1,
                    name |-> NameTem, fam |-> fam, err |-> "",
                    before |-> [disk |-> disk, snap |-> snap]]
    /\ UNCHANGED <<scan, host, pack_masks, newline, float_index, kernel,
                   render, disk, gf>>

\* snap._write_array(name) for an array held in memory
ArrayWrite ==
    /\ snap.pc = "done"
    /\ op.n < MaxOps
    /\ \E name \in DOMAIN snap._arrays \cup family_keys(snap) :
       \E r \in {write_array(disk, gf, snap, name, float_index)} :
          /\ disk' = r.disk
          /\ snap' = r.snap
          /\ op' = [pc |-> "wrote", arg |-> op.arg, n |-> op.n + 1,
                    name |-> name, fam |-> "None", err |-> r.err,
                    before |-> [disk |-> disk, snap |-> snap]]
    /\ UNCHANGED <<scan, host, pack_masks, newline, float_index, kernel,
                   render, gf>>

ArraysNext ==
    \/ SnapLoadFirst
    \/ SnapLoadPass
    \/ SnapLoadFinish
    \/ ArrayRead
    \/ ArraySet
    \/ ArrayWrite

SpecArrays == ArraysInit /\ [][ArraysNext]_vars

(***************************************************************************)
(* SpecNames: the names of a quantity.  The module reads the configured    *)
(* name table, a snapshot whose files hold blocks under some keys is       *)
(* constructed, and a quantity the snapshot lists is read and then         *)
(* written back.                                                           *)
(***************************************************************************)
\* str.ljust(4): blanks added on the right up to four characters
Ljust4(s) == IF Len(s) >= 4 THEN s ELSE s \o [i \in 1 .. 4 - Len(s) |-> 32]

\* the items of the section gadget-name-mapping: the option names as the
\* parser returns them and their values.  The samples: no item; id = iord;
\* hsml = smooth and id = iord
ConfigItems ==
    {<<>>,
     <<<< <<105, 100>>, <<105, 111, 114, 100>> >>>>,
     <<<< <<104, 115, 109, 108>>, <<115, 109, 111, 111, 116, 104>> >>,
       << <<105, 100>>, <<105, 111, 114, 100>> >>>>}

\* the block keys a file of the samples may hold: POS, ID, HSML, RHO and Zs
FileKeys ==
    {NamePOS, NameID, <<72, 83, 77, 76>>, NameRHO, <<90, 115, 32, 32>>}

RECURSIVE configured_maps(_, _)
\* lines 31-41: _name_map and _rev_name_map after the first k items
configured_maps(items, k) ==
    IF k = 0 THEN [name |-> <<>>, rev |-> <<>>]
    ELSE LET m == configured_maps(items, k - 1)
             a == Ljust4(Upper(items[k][1]))
             b == items[k][2]
         IN  [name |-> (b :> a) @@ m.name, rev |-> (a :> b) @@ m.rev]

\* lines 582-588: the default names added for the keys of the files.  No
\* two keys of the samples share a default name, so the order the set is
\* walked in does not show.
default_maps(m, keys) ==
    [name |-> [mm \in DOMAIN m.name \cup {Strip(Lower(nn)) : nn \in keys} |->
                  IF mm \in DOMAIN m.name THEN m.name[mm]
                  ELSE CHOOSE nn \in keys : Strip(Lower(nn)) = mm],
     rev |-> [nn \in DOMAIN m.rev \cup keys |->
                  IF nn \in DOMAIN m.rev THEN m.rev[nn]
                  ELSE Strip(Lower(nn))]]

\* _translate_array_name(name, reverse), lines 43-49
translate_array_name(m, name, reverse) ==
    IF reverse
    THEN IF name \in DOMAIN m.rev THEN m.rev[name] ELSE name
    ELSE IF name \in DOMAIN m.name THEN m.name[name] ELSE name

NamesInit ==
    /\ ScanIdle
    /\ snap = [pc |-> "none"]
    /\ host = "little"
    /\ pack_masks = TRUE
    /\ newline = "lf"
    /\ float_index = TRUE
    /\ SphIdle
    /\ gf = [f \in {"snap"} |-> NoFile]
    /\ disk = [f \in {"snap"} |-> <<>>]
    /\ \E items \in ConfigItems, keys \in SUBSET FileKeys \ {{}} :
          op = [pc |-> "start", items |-> items, keys |-> keys,
                maps |-> [name |-> <<>>, rev |-> <<>>], loadable |-> {},
                name |-> <<>>, g_name |-> <<>>, w_name |-> <<>>]

\* the import of the module and GadgetSnap.__init__, lines 577-590
NamesBuild ==
    /\ op.pc = "start"
    /\ \E m \in {default_maps(configured_maps(op.items, Len(op.items)),
                              op.keys)} :
          op' = [op EXCEPT !.pc = "built", !.maps = m,
                           !.loadable = {translate_array_name(m, x, TRUE) :
                                            x \in op.keys}]
    /\ UNCHANGED <<scan, snap, host, pack_masks, newline, float_index, kernel,
                   render, disk, gf>>

\* _load_array(name) for a name of loadable_keys(): g_name of line 678
NameRead ==
    /\ op.pc = "built"
    /\ \E name \in op.loadable :
          op' = [op EXCEPT !.pc = "read", !.name = name,
                           !.g_name = translate_array_name(op.maps, name, FALSE)]
    /\ UNCHANGED <<scan, snap, host, pack_masks, newline, float_index, kernel,
                   render, disk, gf>>

\* _write_array(name) for the quantity read: g_name of line 741
NameWrite ==
    /\ op.pc = "read"
    /\ op' = [op EXCEPT !.pc = "wrote", !.w_name = GName(op.name)]
    /\ UNCHANGED <<scan, snap, host, pack_masks, newline, float_index, kernel,
                   render, disk, gf>>

NamesNext == NamesBuild \/ NameRead \/ NameWrite

SpecNames == NamesInit /\ [][NamesNext]_vars

(***************************************************************************)
(* SpecThreads: _threaded_render_image.  The coordinating call starts      *)
(* num_threads threads one after the other, each running the bridge on     *)
(* its slice of the particles, joins them in order and sums the outputs.   *)
(* A thread runs from the moment it is started.  The rendering core        *)
(* (_render) is not part of this module's sources: it is taken as          *)
(* additive, an image being the sum over the particles rendered of the     *)
(* particle's deposit, and an image is a function from pixels to integers. *)
(***************************************************************************)
MaxThreads == 3

MaxParticles == 5

Pixels == 1 .. 2

\* the indices slice(i, None, n) selects from an array of p elements
SliceIndices_shifted(i, n, p) == {k \in 0 .. p - 1 : k > i /\ (k - i) % n = 0}

SliceIndices(i, n, p) == {k \in 0 .. p - 1 : k >= i /\ (k - i) % n = 0}

EmptyImage == [px \in Pixels |-> 0]

RECURSIVE Deposit(_, _)
\* the image the core renders of the particles S with the values q:
\* particle k adds q[k] to the pixel it falls on
Deposit(S, q) ==
    IF S = {} THEN EmptyImage
    ELSE LET k == CHOOSE k \in S : TRUE
             im == Deposit(S \ {k}, q)
         IN  [im EXCEPT ![(k % 2) + 1] = @ + q[k]]

RECURSIVE SumOutputs(_, _)
\* sum(outputs): 0 + outputs[0] + outputs[1] + ..., the first k of them
SumOutputs(outputs, k) ==
    IF k = 0 THEN EmptyImage
    ELSE LET acc == SumOutputs(outputs, k - 1)
         IN  [px \in Pixels |-> acc[px] + outputs[k].X[px]]

\* what the rendering function does in a call: "image" renders qty
\* (render_image, to_3d_grid with compatible units), "bad_units" is a call
\* whose out_units has another dimension than the image, "spherical" is
\* _render_spherical_image with denoise
Jobs == {"image", "bad_units", "spherical"}

\* a ratio n / d of a denoised pixel as <<n, d>>; 0 / 0 is nan, <<0, 0>>
Ratio(n, d) == IF d = 0 THEN <<0, 0>> ELSE <<n, d>>

\* float addition of two pixel values: nan + x is nan
RatAdd(a, b) ==
    IF a[2] = 0 \/ b[2] = 0 THEN <<0, 0>>
    ELSE <<a[1] * b[2] + b[1] * a[2], a[2] * b[2]>>

\* the two pixel values are the same number (or both nan)
RatEq(a, b) ==
    IF a[2] = 0 \/ b[2] = 0 THEN a[2] = 0 /\ b[2] = 0
    ELSE a[1] * b[2] = b[1] * a[2]

\* lines 327-332: im, im2 of the core for the particles S and im /= im2
SphericalDenoised(S, q) ==
    LET im == Deposit(S, q)
        im2 == Deposit(S, [k \in DOMAIN q |-> 1])
    IN  [px \in Pixels |-> Ratio(im[px], im2[px])]

\* lines 603-607, 285-287: units.ratio(out_units) raises UnitsException
\* when out_units has another dimension
RatioRaises(job) == job = "bad_units"

\* the value fn returns for the particles S (when it does not raise)
RenderOf(job, S, q) ==
    IF job = "spherical" THEN SphericalDenoised(S, q) ELSE Deposit(S, q)

RECURSIVE SumRatios(_, _)
\* sum(outputs) of denoised images: 0 + outputs[0] + outputs[1] + ...
SumRatios(outputs, k) ==
    IF k = 0 THEN [px \in Pixels |-> <<0, 1>>]
    ELSE LET acc == SumRatios(outputs, k - 1)
         IN  [px \in Pixels |-> RatAdd(acc[px], outputs[k].X[px])]

ThreadsInit ==
    /\ ScanIdle
    /\ GadgetIdle
    /\ kernel = [pc |-> "none"]
    /\ \E n \in 0 .. MaxThreads, p \in 0 .. MaxParticles, job \in Jobs :
       \E q \in [0 .. p - 1 -> {1, 2}] :
          render = [pc |-> "start", num_threads |-> n, qty |-> q,
                    job |-> job, ts |-> <<>>, outputs |-> <<>>,
                    joined |-> 0, err |-> ""]

\* lines 275-276, 498-501, 714-715: threaded is False, the renderer is
\* called in the caller's thread and its exception is the caller's
PlainRender ==
    /\ render.pc = "start"
    /\ render.num_threads = 0
    /\ IF RatioRaises(render.job)
       THEN render' = [render EXCEPT !.pc = "failed",
                                     !.err = "UnitsException"]
       ELSE render' = [result |-> RenderOf(render.job, DOMAIN render.qty,
                                           render.qty),
                       scalar |-> FALSE]
                          @@ [render EXCEPT !.pc = "done"]
    /\ UNCHANGED <<gadgetvars, kernel>>

\* lines 367-373: one pass of the loop that creates and starts the threads
ThreadStart ==
    /\ render.pc = "start"
    /\ render.num_threads >= 1
    /\ \E i \in {Len(render.ts)} :
          render' = [render EXCEPT
                       !.ts = Append(@, [pc |-> "run",
                                         snap_slice |->
                                             SliceIndices(i, render.num_threads,
                                                          Cardinality(DOMAIN render.qty))]),
                       !.pc = IF i + 1 = render.num_threads
                              THEN "join" ELSE "start"]
    /\ UNCHANGED <<gadgetvars, kernel>>

\* line 411 in a thread: X = fn(*args[1:], **kwargs); an exception of fn
\* ends the thread (threading prints the traceback), nothing is appended
BridgeRender ==
    /\ render.pc \in {"start", "join"}
    /\ \E t \in 1 .. Len(render.ts) :
          /\ render.ts[t].pc = "run"
          /\ IF RatioRaises(render.job)
             THEN render' = [render EXCEPT
                          !.ts[t] = [pc |-> "ended",
                                     snap_slice |-> @.snap_slice,
                                     err |-> "UnitsException"]]
             ELSE render' = [render EXCEPT
                          !.ts[t] = [pc |-> "rendered",
                                     snap_slice |-> @.snap_slice,
                                     X |-> RenderOf(render.job, @.snap_slice,
                                                    render.qty)]]
    /\ UNCHANGED <<gadgetvars, kernel>>

\* line 412 in a thread: output_list.append(X); the thread then ends
BridgeAppend ==
    /\ render.pc \in {"start", "join"}
    /\ \E t \in 1 .. Len(render.ts) :
          /\ render.ts[t].pc = "rendered"
          /\ render' = [render EXCEPT
                          !.ts[t].pc = "ended",
                          !.outputs = Append(@, [by |-> t,
                                                 X |-> render.ts[t].X])]
    /\ UNCHANGED <<gadgetvars, kernel>>

\* lines 375-376: t.join() returns once the thread has ended
ThreadJoin ==
    /\ render.pc = "join"
    /\ render.joined < Len(render.ts)
    /\ render.ts[render.joined + 1].pc = "ended"
    /\ render' = [render EXCEPT !.joined = @ + 1]
    /\ UNCHANGED <<gadgetvars, kernel>>

\* line 378: return sum(outputs); of an empty list it is the integer 0
ThreadSum ==
    /\ render.pc = "join"
    /\ render.joined = Len(render.ts)
    /\ render' = [result |-> IF render.job = "spherical"
                             THEN SumRatios(render.outputs,
                                            Len(render.outputs))
                             ELSE SumOutputs(render.outputs,
                                             Len(render.outputs)),
                  scalar |-> render.outputs = <<>>]
                     @@ [render EXCEPT !.pc = "done"]
    /\ UNCHANGED <<gadgetvars, kernel>>

ThreadsNext ==
    \/ PlainRender
    \/ ThreadStart
    \/ BridgeRender
    \/ BridgeAppend
    \/ ThreadJoin
    \/ ThreadSum

SpecThreads == ThreadsInit /\ [][ThreadsNext]_vars

(***************************************************************************)
(* SpecKernel: threads that call get_samples on one Kernel object.         *)
(* kernel.safe is the thread that holds the lock (0: none), kernel.samples *)
(* the attribute _samples once it is set, kernel.calls the position of     *)
(* every thread in its call.  A table is a record of the dtype it was      *)
(* built with and the number of the computation that built it; the        *)
(* number 0 stands for the attribute not being set.                        *)
(***************************************************************************)
MaxCallers == 3

Callers == 1 .. MaxCallers

\* the mutant of CanAcquire: the with statement does not wait
CanAcquire_unlocked(k, t) == TRUE

\* threading.Lock: acquire returns when no thread holds the lock
CanAcquire(k, t) == k.safe = 0

\* hasattr(self, "_samples")
HasSamples(k) == k.samples.made # 0

KernelInit ==
    /\ ScanIdle
    /\ GadgetIdle
    /\ render = [pc |-> "none"]
    /\ \E d \in [Callers -> {"float32", "float64"}] :
          kernel = [pc |-> "made", safe |-> 0,
                    samples |-> [dtype |-> "none", made |-> 0],
                    computed |-> 0,
                    calls |-> [t \in Callers |->
                                 [pc |-> "idle", dtype |-> d[t],
                                  cached |-> FALSE]]]

\* a thread calls get_samples(dtype): line 191, up to the with statement.
\* cached tells whether _samples was set when the call was made.
SamplesCall ==
    /\ kernel.pc = "made"
    /\ \E t \in Callers :
          /\ kernel.calls[t].pc = "idle"
          /\ kernel' = [kernel EXCEPT
                          !.calls[t].pc = "acquire",
                          !.calls[t].cached = HasSamples(kernel)]
    /\ UNCHANGED <<gadgetvars, render>>

\* line 192: with self.safe, the lock acquired
SamplesAcquire ==
    /\ kernel.pc = "made"
    /\ \E t \in Callers :
          /\ kernel.calls[t].pc = "acquire"
          /\ CanAcquire(kernel, t)
          /\ kernel' = [kernel EXCEPT !.safe = t, !.calls[t].pc = "check"]
    /\ UNCHANGED <<gadgetvars, render>>

\* line 193: if not hasattr(self, "_samples")
SamplesCheck ==
    /\ kernel.pc = "made"
    /\ \E t \in Callers :
          /\ kernel.calls[t].pc = "check"
          /\ kernel' = [kernel EXCEPT
                          !.calls[t].pc = IF HasSamples(kernel)
                                          THEN "release" ELSE "compute"]
    /\ UNCHANGED <<gadgetvars, render>>

\* lines 194-196: the table computed and assigned to self._samples
SamplesCompute ==
    /\ kernel.pc = "made"
    /\ \E t \in Callers :
          /\ kernel.calls[t].pc = "compute"
          /\ kernel' = [kernel EXCEPT
                          !.samples = [dtype |-> kernel.calls[t].dtype,
                                       made |-> kernel.computed + 1],
                          !.computed = @ + 1,
                          !.calls[t].pc = "release"]
    /\ UNCHANGED <<gadgetvars, render>>

\* the end of the with block: the lock released
SamplesRelease ==
    /\ kernel.pc = "made"
    /\ \E t \in Callers :
          /\ kernel.calls[t].pc = "release"
          /\ kernel' = [kernel EXCEPT !.safe = 0, !.calls[t].pc = "return"]
    /\ UNCHANGED <<gadgetvars, render>>

\* line 197: return self._samples
SamplesReturn ==
    /\ kernel.pc = "made"
    /\ \E t \in Callers :
          /\ kernel.calls[t].pc = "return"
          /\ kernel' = [kernel EXCEPT
                          !.calls[t] = [pc |-> "done", dtype |-> @.dtype,
                                        cached |-> @.cached,
                                        ret |-> kernel.samples]]
    /\ UNCHANGED <<gadgetvars, render>>

KernelNext ==
    \/ SamplesCall
    \/ SamplesAcquire
    \/ SamplesCheck
    \/ SamplesCompute
    \/ SamplesRelease
    \/ SamplesReturn

SpecKernel == KernelInit /\ [][KernelNext]_vars

(***************************************************************************)
(* render_image and to_3d_grid (sph/__init__.py): the choice of renderer,  *)
(* the passes of the multi-resolution renderer and the coverage pass of    *)
(* denoise.  A call is followed down to the calls of the rasterising core, *)
(* which are recorded with every argument the wrappers decide.  An         *)
(* optional argument is a sequence: <<>> for None, <<v>> for the value v.  *)
(* Bounds are kept exactly, as integers in units of 1 / (2 * nx).          *)
(***************************************************************************)
MaxNx == 170
MaxSmooth == 18

\* the snapshot of the samples: the bounding box of its particles, per axis
Boxes ==
    { <<<<-3, 3>>, <<-3, 3>>, <<-3, 3>>>>,
      <<<<1, 3>>, <<-2, 2>>, <<-3, 3>>>> }

\* 1 / np.min(snap['eps']) of the samples
InvEps == 10

\* the explicit x2 of the samples
SampleX2 == 3

RECURSIVE FloorLog2(_)
\* int(np.floor(np.log2(q))) for an integer q >= 1
FloorLog2(q) == IF q <= 1 THEN 0 ELSE 1 + FloorLog2(q \div 2)

RECURSIVE CeilLog2Of(_, _, _)
\* the least k >= from with d * 2^k >= n: ceil(log2(n / d)) in real numbers
\* when that is not negative
CeilLog2Of(n, d, from) ==
    IF d >= n THEN from ELSE CeilLog2Of(n, 2 * d, from + 1)

LevelCount_ceil(nx) == CeilLog2Of(nx, 20, 0)

\* lines 484-486, 701-703: int(np.floor(np.log2(nx / 20))) for an integer
\* nx >= 20; nx / 20 is the integer quotient
LevelCount(nx) == FloorLog2(nx \div 20)

RECURSIVE Pow2(_)
Pow2(k) == IF k <= 0 THEN 1 ELSE 2 * Pow2(k - 1)

\* the name of the coverage field of a denoise pass
CoverName(fn) == IF fn = "render_image" THEN "__denoise_one" ELSE "__one"

\* lines 677-699: the bounds and the resolution to_3d_grid works with;
\* lines 542-553: the defaults of _render_image (y2 = x2, x1 = -x2,
\* y1 = -y2, ny = nx)
CallLocals(a, box, cfg) ==
    LET lim == IF a.fn = "render_image"
               THEN <<<<-a.x2[1], a.x2[1]>>, <<-a.x2[1], a.x2[1]>>>>
               ELSE IF a.x2 = <<>>
                    THEN box
                    ELSE [k \in 1 .. 3 |-> <<-a.x2[1], a.x2[1]>>]
        nx == IF a.nx = <<>>
              THEN (lim[1][2] - lim[1][1]) * InvEps
              ELSE a.nx[1]
    IN  [nx |-> nx, lim |-> lim,
         threaded |-> IF a.threaded = <<>> THEN cfg ELSE a.threaded[1],
         levels |-> IF a.approximate_fast /\ nx \div 20 >= 1
                    THEN <<LevelCount(nx)>> ELSE <<>>]

\* the renderer is the plain one: approximate_fast is off, or
\* _interpolated_renderer returned fn itself (line 384)
PlainRenderer(a, loc) == ~a.approximate_fast \/ loc.levels = <<1>>

\* lines 387-401: the number of calls render_fn makes: the base pass and
\* one per i in xrange(1, levels)
NPasses(a, loc) ==
    IF PlainRenderer(a, loc) THEN 1
    ELSE IF loc.levels[1] < 1 THEN 1 ELSE loc.levels[1]

\* lines 388-398: the smooth_range and res_downgrade of pass i
PassRange(levels, i) ==
    IF i = 0 THEN <<0, 2>>
    ELSE IF i = levels - 1 THEN <<1, 100000>> ELSE <<1, 2>>

\* lines 555-571, 746-764: the edges of one axis after the resolution is
\* degraded by rd, in units of 1 / (2 * n)
Edge(lo, hi, n, rd) ==
    <<2 * n * lo - (hi - lo) * (rd - 1), 2 * n * hi + (hi - lo) * (rd - 1)>>

\* lines 365-371: the slices the threads render; snap_slice is None in a
\* single-threaded render
Slices(threaded) ==
    IF threaded = 0 THEN {<<>>}
    ELSE {<<i, threaded>> : i \in 0 .. threaded - 1}

\* lines 517-633, 733-800: the call of the rasterising core made by pass i
CoreCall(a, loc, i) ==
    LET plain == PlainRenderer(a, loc)
        rd == IF plain THEN 1 ELSE Pow2(i)
        rg == IF plain THEN <<0, 100000>> ELSE PassRange(loc.levels[1], i)
    IN  [core |-> a.fn, qty |-> a.qty, n |-> loc.nx \div rd,
         unit |-> 2 * loc.nx,
         lim |-> [k \in DOMAIN loc.lim |->
                     Edge(loc.lim[k][1], loc.lim[k][2], loc.nx, rd)],
         smooth_lo |-> rg[1], smooth_hi |-> rg[2],
         res_downgrade |-> IF plain THEN <<>> ELSE <<rd>>,
         kernel |-> a.kernel, smooth |-> a.smooth,
         slices |-> Slices(loc.threaded)]

\* the pixel size of a pass in pixels of the full resolution
Scale(p) == IF p.res_downgrade = <<>> THEN 1 ELSE p.res_downgrade[1]

\* the core's range test: a particle of smoothing length s2 (in half
\* pixels of the full resolution) is deposited by the call p
InRange(s2, p) ==
    /\ 2 * p.smooth_lo * Scale(p) <= s2
    /\ s2 < 2 * p.smooth_hi * Scale(p)

NoLocals == [nx |-> 0, lim |-> <<>>, threaded |-> 0, levels |-> <<>>]

RenderArgs ==
    { [fn |-> fn, qty |-> "rho", nx |-> nx, x2 |-> x2,
       approximate_fast |-> af, threaded |-> th, denoise |-> dn,
       kernel |-> "Kernel()", smooth |-> "smooth"] :
        fn \in {"render_image", "to_3d_grid"},
        nx \in {<<>>} \cup {<<n>> : n \in 1 .. MaxNx},
        x2 \in {<<>>, <<SampleX2>>},
        af \in BOOLEAN, dn \in BOOLEAN,
        th \in {<<>>, <<0>>, <<2>>} }

\* render_image has nx = 500 and x2 = 100 as defaults, never None
ValidArgs(a) == a.fn = "render_image" => (a.nx # <<>> /\ a.x2 # <<>>)

RenderInit ==
    /\ ScanIdle
    /\ GadgetIdle
    /\ kernel = [pc |-> "none"]
    /\ \E a \in RenderArgs, box \in Boxes, cfg \in {0, 2} :
          /\ ValidArgs(a)
          /\ a.threaded # <<>> => cfg = 0
          /\ render = [pc |-> "call", depth |-> 1, args |-> a, box |-> box,
                       cfg |-> cfg, loc |-> NoLocals, i |-> 0,
                       passes |-> <<>>, first |-> <<>>, err |-> ""]

\* lines 484-491, 677-708: a call up to the choice of renderer; for an nx
\* below 20 np.log2(0) is -inf and int() raises OverflowError
RenderCall ==
    /\ render.pc = "call"
    /\ \E loc \in {CallLocals(render.args, render.box, render.cfg)} :
          IF render.args.approximate_fast /\ loc.nx \div 20 < 1
          THEN render' = [render EXCEPT !.pc = "failed", !.loc = loc,
                                        !.err = "OverflowError"]
          ELSE render' = [render EXCEPT !.pc = "pass", !.loc = loc, !.i = 0]
    /\ UNCHANGED <<gadgetvars, kernel>>

\* lines 387-401 (one pass of render_fn), or the single call of the plain
\* renderer (lines 493-501, 710-715)
LevelPass ==
    /\ render.pc = "pass"
    /\ render.i < NPasses(render.args, render.loc)
    /\ \E p \in {CoreCall(render.args, render.loc, render.i)} :
          render' = [render EXCEPT
                       !.passes = Append(@, p),
                       !.i = @ + 1,
                       !.pc = IF render.i + 1
                                    = NPasses(render.args, render.loc)
                              THEN "rendered" ELSE "pass"]
    /\ UNCHANGED <<gadgetvars, kernel>>

\* lines 503-507, 719-723: denoise renders the coverage field by calling
\* the function itself; render_image passes its arguments on, to_3d_grid
\* passes its locals nx and x2
DenoiseCall ==
    /\ render.pc = "rendered"
    /\ render.depth = 1
    /\ render.args.denoise
    /\ render' = [render EXCEPT
          !.pc = "call", !.depth = 2, !.first = render.passes,
          !.passes = <<>>, !.i = 0, !.loc = NoLocals,
          !.args = [render.args EXCEPT
              !.qty = CoverName(render.args.fn),
              !.nx = IF render.args.fn = "render_image"
                     THEN @ ELSE <<render.loc.nx>>,
              !.x2 = IF render.args.fn = "render_image"
                     THEN @ ELSE <<render.loc.lim[1][2]>>,
              !.threaded = <<render.loc.threaded>>,
              !.denoise = FALSE]]
    /\ UNCHANGED <<gadgetvars, kernel>>

\* lines 515, 730: return im
RenderReturn ==
    /\ render.pc = "rendered"
    /\ render.depth = 1
    /\ ~render.args.denoise
    /\ render' = [render EXCEPT !.pc = "done"]
    /\ UNCHANGED <<gadgetvars, kernel>>

\* lines 508-512, 724-727: the coverage image is back; im / im2
DenoiseDivide ==
    /\ render.pc = "rendered"
    /\ render.depth = 2
    /\ render' = [render EXCEPT !.pc = "done", !.depth = 1]
    /\ UNCHANGED <<gadgetvars, kernel>>

RenderNext ==
    \/ RenderCall
    \/ LevelPass
    \/ DenoiseCall
    \/ RenderReturn
    \/ DenoiseDivide

SpecRender == RenderInit /\ [][RenderNext]_vars

(***************************************************************************)
(* Claims on the presence heuristic and the stride rule (SpecScan).        *)
(***************************************************************************)
ScanDone == scan.pc \in {"recorded", "notypes", "corrupt"}

\* C1 (as claimed): for every block the scan records, the counts of the
\* types set in its presence mask, summed and multiplied by the block's
\* partlen, give the block's length exactly.
C1_MaskExplainsLength ==
    scan.pc = "recorded" =>
        MaskCount(scan.block.p_types, scan.npart) * scan.block.partlen
            = scan.block.length

\* the block in hand has the length of types 0 and 2 together
IsZeroTwoBlock ==
    /\ scan.pc \in {"recorded", "notypes"}
    /\ scan.block.length
         = (scan.npart[0] + scan.npart[2]) * scan.block.partlen

\* no rule that get_block_types tries before the pair (0, 2) matches a block
\* of the length of types 0 and 2: not the total, not a single count, not
\* the pair (0, 0), not the pair (0, 1)
EarlierRulesMiss ==
    /\ scan.npart[0] + scan.npart[2] # SumAll(scan.npart)
    /\ \A n \in Types : scan.npart[n] # scan.npart[0] + scan.npart[2]
    /\ scan.npart[0] # scan.npart[2]
    /\ scan.npart[1] # scan.npart[2]

\* C2 (as claimed): a block whose length is (npart[0]+npart[2])*stride is
\* recorded with the presence mask holding exactly the types 0 and 2.
C2_AlwaysZeroTwo ==
    IsZeroTwoBlock =>
        scan.pc = "recorded" /\ MaskSet(scan.block.p_types) = {0, 2}

\* C2 (amended): a block whose length is (npart[0]+npart[2])*stride is always
\* recorded, and its mask is exactly {0, 2} if and only if no earlier rule
\* matches: the length differs from the total and from every single count,
\* and npart[2] differs from npart[0] (pair (0,0)) and npart[1] (pair (0,1)).
C2_ZeroTwoIffFirstMatch ==
    IsZeroTwoBlock =>
        /\ scan.pc = "recorded"
        /\ (MaskSet(scan.block.p_types) = {0, 2}) <=> EarlierRulesMiss

\* C2 witness: a recorded block of the length of types 0 and 2, both present
\* with different counts, that got the mask {0, 2}
C2_Witness ==
    /\ IsZeroTwoBlock
    /\ scan.pc = "recorded"
    /\ MaskSet(scan.block.p_types) = {0, 2}
    /\ scan.npart[0] > 0
    /\ scan.npart[2] > scan.npart[0]

\* C4: every block scanned after HEAD gets its stride and element type from
\* the ordered rules: POS/VEL 24 and float64 if length = t_part*24, else 12
\* and float32; ID 4 and int32 if length = t_part*4, else 8 and int64; any
\* other name 8 and float64 if length = t_part*8, else 4 and float32.
C4_StrideRule ==
    ScanDone =>
        LET b == scan.block
            posvel == b.name \in {NamePOS, NameVEL}
            id == b.name = NameID
        IN  /\ posvel /\ b.length = scan.t_part * 24
                => b.partlen = 24 /\ b.data_type = "float64"
            /\ posvel /\ b.length # scan.t_part * 24
                => b.partlen = 12 /\ b.data_type = "float32"
            /\ id /\ b.length = scan.t_part * 4
                => b.partlen = 4 /\ b.data_type = "int32"
            /\ id /\ b.length # scan.t_part * 4
                => b.partlen = 8 /\ b.data_type = "int64"
            /\ ~posvel /\ ~id /\ b.length = scan.t_part * 8
                => b.partlen = 8 /\ b.data_type = "float64"
            /\ ~posvel /\ ~id /\ b.length # scan.t_part * 8
                => b.partlen = 4 /\ b.data_type = "float32"
            /\ <<b.partlen, b.data_type>> \in
                 {<<24, "float64">>, <<12, "float32">>, <<4, "int32">>,
                  <<8, "int64">>, <<8, "float64">>, <<4, "float32">>}

\* C4 witness: an ID block of 8-byte ids, recorded beside a header whose
\* counts make length = t_part*8 (the rule of the other blocks would say
\* float64; the ID rule says int64)
C4_Witness ==
    /\ scan.pc = "recorded"
    /\ scan.block.name = NameID
    /\ scan.t_part > 0
    /\ scan.block.length = scan.t_part * 8
    /\ scan.block.partlen = 8
    /\ scan.block.data_type = "int64"

(***************************************************************************)
(* Claims on the format check (SpecFormat).                                *)
(***************************************************************************)
\* the first four bytes of the file as the machine reads an unsigned int:
\* spelled out byte by byte for the four magic numbers
MagicIs(n) ==
    LET b == SubSeq(disk["snap"], 1, 4)
        le == host = "little"
    IN  CASE n = 8 -> b = (IF le THEN <<8, 0, 0, 0>> ELSE <<0, 0, 0, 8>>)
          [] n = 134217728 -> b = (IF le THEN <<0, 0, 0, 8>> ELSE <<8, 0, 0, 0>>)
          [] n = 256 -> b = (IF le THEN <<0, 1, 0, 0>> ELSE <<0, 0, 1, 0>>)
          [] n = 65536 -> b = (IF le THEN <<0, 0, 1, 0>> ELSE <<0, 1, 0, 0>>)

MagicKnown == MagicIs(8) \/ MagicIs(134217728) \/ MagicIs(256) \/ MagicIs(65536)

\* the byte order the object reads the file in is not the machine's
ForeignOrder(g) == g.endian \in {"<", ">"} /\ ByteOrderOf(g.endian) # host

\* C3: Open classifies the file by its first four bytes read as a native
\* unsigned integer: 8 self-describing native, 134217728 self-describing
\* foreign, 256 legacy native, 65536 legacy foreign; any other value makes
\* Open fail with no block recorded and no object; _can_load answers True
\* for exactly these four values.
C3_FormatClassified ==
    /\ op.pc = "opened" =>
         /\ MagicIs(8) => op.res.format2 /\ op.res.endian = "="
         /\ MagicIs(134217728) => op.res.format2 /\ ForeignOrder(op.res)
         /\ MagicIs(256) => ~op.res.format2 /\ op.res.endian = "="
         /\ MagicIs(65536) => ~op.res.format2 /\ ForeignOrder(op.res)
         /\ ~MagicKnown =>
              /\ op.res.err = "IOError"
              /\ op.res.blocks = <<>>
              /\ gf["snap"] = NoFile
    /\ op.pc = "can_load" => (op.res = "True" <=> MagicKnown)

\* C3 witness: a legacy file in foreign order opened into an object with
\* its block recorded
C3_Witness ==
    /\ op.pc = "opened"
    /\ MagicIs(65536)
    /\ gf["snap"] # NoFile
    /\ ~gf["snap"].format2
    /\ DOMAIN gf["snap"].blocks # {}

(***************************************************************************)
(* Claims on write_block and get_block (SpecBlockIO)                       *)
(***************************************************************************)
IOWritten == op.pc \in {"written", "read"}

IOBlock == gf["snap"].blocks[op.name]

\* the elements the range addressed by the call holds
IOCapacity ==
    get_block_parts(gf["snap"], op.name, op.p_type)
        * get_block_dims(gf["snap"], op.name)

\* the array passed, as numbers of the block's type
IOExpected ==
    [i \in 1 .. Len(op.data.elems) |->
        AsType(op.data.elems[i], op.data.dtype, IOBlock.data_type)]

\* the call wrote every particle type of the block with data of the block's
\* kind that fills it
IOFullWrite ==
    /\ IOWritten
    /\ HasBlock(gf["snap"], op.name)
    /\ op.p_type = -1
    /\ KindOf(op.data.dtype) = KindOf(IOBlock.data_type)
    /\ Len(op.data.elems) = IOCapacity

\* C5: a block written for all particle types with data of its kind that
\* fills it is written without error and read back with the same values, in
\* a file of the machine's byte order and in a file of the other order.
C5_RoundTrip ==
    IOFullWrite =>
        /\ op.err = ""
        /\ op.pc = "read" =>
              /\ op.read.err = ""
              /\ op.read.data.elems = IOExpected

\* the round trip on self-describing files with data of the block's own
\* type: the cases in which the write and the read agree
C5_RoundTripSameType ==
    (IOFullWrite /\ gf["snap"].format2 /\ op.data.dtype = IOBlock.data_type) =>
        /\ op.err = ""
        /\ op.pc = "read" =>
              /\ op.read.err = ""
              /\ op.read.data.elems = op.data.elems

\* the call wrote one particle type of a block shared by two or more types
\* of a self-describing file, with as many elements as the type has
IOTypeWrite ==
    /\ IOWritten
    /\ gf["snap"].format2
    /\ HasBlock(gf["snap"], op.name)
    /\ op.p_type >= 0
    /\ IOBlock.p_types[op.p_type]
    /\ Cardinality(MaskSet(IOBlock.p_types)) >= 2
    /\ op.data.dtype = IOBlock.data_type
    /\ Len(op.data.elems) = IOCapacity
    /\ Len(op.data.elems) > 0

\* the byte position of the type's slice in the payload of the block
IOSliceStart ==
    IOBlock.start
        + IOBlock.partlen * get_start_part(gf["snap"], op.name, op.p_type)

IOSliceLen == ItemSize(IOBlock.data_type) * Len(op.data.elems)

\* C6: writing one particle type into a block shared by several types
\* succeeds, and every payload byte outside the slice of that type is as it
\* was before the call.
C6_TypeWriteKeepsOthers ==
    IOTypeWrite =>
        /\ op.err = ""
        /\ \A i \in 1 .. IOBlock.length :
              LET at == IOBlock.start + i
              IN  (at <= IOSliceStart \/ at > IOSliceStart + IOSliceLen) =>
                      disk["snap"][at] = op.before[at]

\* C7: write_block with more elements than the addressed range holds, or
\* with data of another kind than the block's, raises ValueError; with a
\* name the file does not hold it raises KeyError; in each case the file is
\* byte for byte as before the call.
C7_RejectedLeavesFile ==
    IOWritten =>
        /\ ~HasBlock(gf["snap"], op.name) =>
              op.err = "KeyError" /\ disk["snap"] = op.before
        /\ (HasBlock(gf["snap"], op.name)
              /\ Len(op.data.elems) > IOCapacity) =>
                 op.err = "ValueError" /\ disk["snap"] = op.before
        /\ (HasBlock(gf["snap"], op.name)
              /\ KindOf(op.data.dtype) # KindOf(IOBlock.data_type)) =>
                 op.err = "ValueError" /\ disk["snap"] = op.before

\* a write of one element too many, of the block's own type, to every type
\* of a block was rejected
C7_Witness ==
    /\ op.pc = "written"
    /\ HasBlock(gf["snap"], op.name)
    /\ op.p_type = -1
    /\ op.data.dtype = IOBlock.data_type
    /\ Len(op.data.elems) = IOCapacity + 1
    /\ op.err = "ValueError"
    /\ disk["snap"] = op.before

(***************************************************************************)
(* Claims on write_header (SpecHeader)                                     *)
(***************************************************************************)
\* the 48 bytes of fill that end the HEAD payload of a format 2 file
FillOf(file) == SubSeq(file, 20 + SerializedSize + 1, 20 + 256)

\* the second Open gave the header of the first, field by field, and the
\* fill bytes of the file are those it had before the write
HeaderReproduced ==
    /\ gf["snap"].err = ""
    /\ HeaderValues(gf["snap"].header) = HeaderValues(op.first)
    /\ FillOf(disk["snap"]) = FillOf(op.before)

\* C8: Open, write_header with the header read, Open again: the second
\* header equals the first in every field and the 48 bytes of fill are the
\* bytes the file had, on every platform.
C8_HeaderRoundTrip == op.pc = "reopened" => HeaderReproduced

\* the round trip where the platform writes the bytes as given
C8_HeaderRoundTripBinary ==
    (op.pc = "reopened" /\ newline = "lf") => HeaderReproduced

(***************************************************************************)
(* Claims on GadgetSnap (SpecSnap)                                         *)
(***************************************************************************)
\* the per-type counts in the header a file holds on disk, read in the
\* file's own byte order
DiskCounts(n) ==
    [t \in Types |-> FieldAt(gf[n].endian, SubSeq(disk[n], 21, 276), 1 + t)]

\* C9: after _write with one shared header, the counts in the header on
\* disk of every file of the snapshot are the file's own counts, whatever
\* counts the shared header held.
C9_LocalCountsOnDisk ==
    op.pc = "wrote" =>
        \A k \in 1 .. Len(snap._files) :
            DiskCounts(snap._files[k]) = gf[snap._files[k]].header.npart

\* the same where every file is in one byte order and the platform writes
\* the bytes as given
C9_LocalCountsUniform ==
    (/\ op.pc = "wrote"
     /\ newline = "lf"
     /\ \A k \in 1 .. Len(snap._files) :
           gf[snap._files[k]].endian = gf[snap._files[1]].endian) =>
        \A k \in 1 .. Len(snap._files) :
            DiskCounts(snap._files[k]) = gf[snap._files[k]].header.npart

\* the number of files the snapshot on disk declares
DeclaredFiles == Cardinality(DOMAIN disk)

\* C10: the constructor opens file 0 and then, for i = 1 .. F-1 in
\* increasing order, the file named base.i in decimal, and no other; it
\* ends with all F files opened, for every F and for both ways of naming
\* file 0.
C10_OpensNumbered ==
    snap.pc \in {"loop", "done", "failed"} =>
        /\ \A k \in 1 .. Len(snap.opened) : snap.opened[k] = NameOf(k - 1)
        /\ snap.pc = "done" => Len(snap.opened) = DeclaredFiles

\* the same for snapshots of at most 11 files
C10_OpensNumberedUpTo11 ==
    (snap.pc \in {"loop", "done", "failed"} /\ DeclaredFiles <= 11) =>
        /\ \A k \in 1 .. Len(snap.opened) : snap.opened[k] = NameOf(k - 1)
        /\ snap.pc = "done" => Len(snap.opened) = DeclaredFiles

\* the header the file n holds on disk, as the file object read it
HeaderOnDisk(n) == GadgetHeader(SubSeq(disk[n], 21, 276), gf[n].endian)

\* the file n is in the file list of the loaded snapshot
InFiles(n) == \E k \in 1 .. Len(snap._files) : snap._files[k] = n

ListedButCooling ==
    {"time", "redshift", "flag_sfr", "flag_feedback", "flag_metals",
     "flag_stellarage", "num_files", "BoxSize", "Omega0", "OmegaLambda",
     "HubbleParam", "mass", "npartTotal"}

\* the two headers hold the same bytes in every field of the set
SameIn(fields, h1, h2) ==
    /\ "time" \in fields => h1.time = h2.time
    /\ "redshift" \in fields => h1.redshift = h2.redshift
    /\ "flag_sfr" \in fields => h1.flag_sfr = h2.flag_sfr
    /\ "flag_feedback" \in fields => h1.flag_feedback = h2.flag_feedback
    /\ "flag_cooling" \in fields => h1.flag_cooling = h2.flag_cooling
    /\ "flag_metals" \in fields => h1.flag_metals = h2.flag_metals
    /\ "flag_stellarage" \in fields => h1.flag_stellarage = h2.flag_stellarage
    /\ "num_files" \in fields => h1.num_files = h2.num_files
    /\ "BoxSize" \in fields => h1.BoxSize = h2.BoxSize
    /\ "Omega0" \in fields => h1.Omega0 = h2.Omega0
    /\ "OmegaLambda" \in fields => h1.OmegaLambda = h2.OmegaLambda
    /\ "HubbleParam" \in fields => h1.HubbleParam = h2.HubbleParam
    /\ "mass" \in fields => h1.mass = h2.mass
    /\ "npartTotal" \in fields => h1.npartTotal = h2.npartTotal

\* the load ended without an error and every file after the first is in
\* the file list exactly if its header equals the first file's in `fields`
SkipsExactly(fields) ==
    (snap.pc \in {"done", "failed"} /\ op.pc = "start"
        /\ \A i \in 0 .. DeclaredFiles - 1 : NameOf(i) \in DOMAIN disk
        /\ DeclaredFiles <= 10
        /\ \A n \in DOMAIN disk : disk[n][1] = 8) =>
        /\ snap.pc = "done"
        /\ \A k \in 2 .. Len(snap.opened) :
              InFiles(snap.opened[k]) <=>
                  SameIn(fields, HeaderOnDisk(snap.opened[k]),
                         HeaderOnDisk(snap.opened[1]))

\* C11: Load skips, without failing, every file after the first whose
\* header differs from the first file's in time, redshift, a feature flag
\* (star formation, feedback, cooling, metals, stellar age), the file
\* count, the box size, Omega_matter, Omega_Lambda, H0, the mass table or
\* the global totals, and adds every file that matches in all of them.
C11_MismatchSkipped == SkipsExactly(ListedButCooling \cup {"flag_cooling"})

\* the same without the cooling flag among the compared fields
C11_MismatchSkippedButCooling == SkipsExactly(ListedButCooling)

\* a file that differs from the first one only in the cooling flag is in
\* the file list
C11_CoolingAccepted ==
    /\ snap.pc = "done"
    /\ \E k \in 2 .. Len(snap.opened) :
          /\ InFiles(snap.opened[k])
          /\ HeaderOnDisk(snap.opened[k]).flag_cooling
                 # HeaderOnDisk(snap.opened[1]).flag_cooling

\* the sum of two unsigned 64-bit words, as the integers add
AddWide(a, b) ==
    LET c1 == a[1] + b[1]
        c2 == a[2] + b[2] + c1 \div 256
        c3 == a[3] + b[3] + c2 \div 256
        c4 == a[4] + b[4] + c3 \div 256
        c5 == a[5] + b[5] + c4 \div 256
        c6 == a[6] + b[6] + c5 \div 256
        c7 == a[7] + b[7] + c6 \div 256
        c8 == a[8] + b[8] + c7 \div 256
    IN  <<c1 % 256, c2 % 256, c3 % 256, c4 % 256,
          c5 % 256, c6 % 256, c7 % 256, c8 % 256>>

RECURSIVE AcceptedSum(_, _)
\* the arithmetic sum of the counts of type t the first k accepted files
\* hold, as a 64-bit word
AcceptedSum(k, t) ==
    IF k = 0 THEN Zeros(8)
    ELSE AddWide(AcceptedSum(k - 1, t),
                 gf[snap._files[k]].header.npart[t] \o Zeros(4))

\* the header h holds the total n of type t as npartTotal + 2**32 * NallHW
\* with npartTotal below 2**32
HoldsTotal(h, t, n) ==
    /\ SubSeq(h.npartTotal[t], 1, 4) = SubSeq(n, 1, 4)
    /\ SubSeq(h.npartTotal[t] \o Zeros(4), 5, 8) = Zeros(4)
    /\ SubSeq(h.NallHW[t] \o Zeros(4), 1, 4) = SubSeq(n, 5, 8)
    /\ SubSeq(h.NallHW[t] \o Zeros(4), 5, 8) = Zeros(4)

\* the merged counts and the totals of every header are the sums
TotalsAreSums ==
    \A t \in Types :
        \E n \in {AcceptedSum(Len(snap._files), t)} :
            /\ snap.header.npart[t] \o Zeros(4) = n
            /\ HoldsTotal(snap.header, t, n)
            /\ \A k \in 1 .. Len(snap._files) :
                  HoldsTotal(gf[snap._files[k]].header, t, n)

\* C12: after Load the merged count of every type is the arithmetic sum of
\* the counts of the accepted files, also where the sum is 2**32 or more,
\* and the merged header and every accepted file's header hold that sum as
\* npartTotal + 2**32 * NallHW with 0 <= npartTotal < 2**32.
C12_CountsSummed == (snap.pc = "done" /\ op.pc = "start") => TotalsAreSums

\* the same where every sum is below 2**32
C12_CountsSummedBelowWrap ==
    (/\ snap.pc = "done"
     /\ op.pc = "start"
     /\ \A t \in Types :
           SubSeq(AcceptedSum(Len(snap._files), t), 5, 8) = Zeros(4)) =>
        TotalsAreSums

\* a snapshot of two accepted files whose counts of one type add up to
\* 2**32 has been loaded
C12_WrapLoaded ==
    /\ snap.pc = "done"
    /\ Len(snap._files) = 2
    /\ AcceptedSum(2, 0) = <<0, 0, 0, 0, 1, 0, 0, 0>>

(***************************************************************************)
(* Claims on the arrays of a snapshot (SpecArrays).                        *)
(***************************************************************************)
\* some accepted file holds a block of the logical name whose mask has the
\* type of the family
OnDiskFor(sn, name, fam) ==
    \E k \in 1 .. Len(sn._files) :
        \E nn \in DOMAIN gf[sn._files[k]].blocks :
            /\ Strip(Lower(nn)) = name
            /\ gf[sn._files[k]].blocks[nn].p_types[type_map[fam]]

\* the families that hold a particle
Populated(sn) == {families(sn)[i] : i \in 1 .. Len(families(sn))}

\* the quantity is on disk for some of the families of the snapshot and not
\* for all of them
OnDiskForSome(sn, name) ==
    /\ \E f \in Populated(sn) : OnDiskFor(sn, name, f)
    /\ \E f \in Populated(sn) : ~OnDiskFor(sn, name, f)

\* the call of _load_array in hand raised the error for a family that
\* lacks the quantity some file holds, and partial for all families where
\* only some hold it, and stored nothing
LoadRaises(absent, partial) ==
    op.pc = "read" =>
        /\ (/\ op.fam # "None"
            /\ op.name \in DOMAIN op.before.snap._block_list
            /\ ~OnDiskFor(op.before.snap, op.name, op.fam)) =>
               (op.err = absent /\ snap = op.before.snap)
        /\ (op.fam = "None" /\ OnDiskForSome(op.before.snap, op.name)) =>
               (op.err = partial /\ snap = op.before.snap)

\* C13 as stated: _load_array fails with KeyError for a specific family
\* for which the quantity is absent and with IOError for all families
\* when the quantity is present for only some of them; no array is stored.
C13_LoadErrorsAsStated == LoadRaises("KeyError", "IOError")

\* C13 amended: _load_array fails with IOError for a specific family for
\* which a quantity some file holds is absent, and with KeyError for all
\* families when the quantity is present for only some of them and for
\* any family when no file holds the quantity; no array is stored.
C13_LoadErrors ==
    /\ LoadRaises("IOError", "KeyError")
    /\ (op.pc = "read" /\ op.name \notin DOMAIN op.before.snap._block_list) =>
           (op.err = "KeyError" /\ snap = op.before.snap)

\* RHO has been asked for the dm family of a snapshot whose RHO blocks
\* hold gas and star only
C13_Witness ==
    /\ op.pc = "read"
    /\ op.fam = "dm"
    /\ op.name = NameRho
    /\ OnDiskFor(op.before.snap, NameRho, "gas")
    /\ ~OnDiskFor(op.before.snap, NameRho, "dm")
    /\ op.err = "IOError"

\* RHO has been asked for all families of such a snapshot
C13_WitnessAll ==
    /\ op.pc = "read"
    /\ op.fam = "None"
    /\ op.name = NameRho
    /\ OnDiskForSome(op.before.snap, NameRho)
    /\ op.err = "KeyError"

\* the call of _write_array in hand was for a quantity whose block no file
\* of the snapshot held
WroteNew ==
    /\ op.pc = "wrote"
    /\ \A i \in 1 .. Len(snap._files) :
          FileParts(gf, op.before.snap, GName(op.name))[i] = 0
    /\ op.name \in DOMAIN op.before.snap._arrays

\* the rows file k of F is to hold of a new quantity of N rows
NewShare(N, F, k) == IF k < F THEN N \div F ELSE N - (F - 1) * (N \div F)

\* C14: _write_array for a quantity of N rows that has no block in any of
\* the F files registers a new block in every file, sized floor(N/F) rows
\* in the first F-1 files and N - (F-1)*floor(N/F) in the last, and then
\* writes the N rows in order.
C14_NewBlockRegistered ==
    WroteNew =>
        LET a == op.before.snap._arrays[op.name]
            N == Len(a.elems) \div a.ndim
            F == Len(snap._files)
        IN  /\ op.err = ""
            /\ \A k \in 1 .. F :
                  /\ HasBlock(gf[snap._files[k]], GName(op.name))
                  /\ get_block_parts(gf[snap._files[k]], GName(op.name), -1)
                         = NewShare(N, F, k)

\* the call for a new quantity ends with NameError and leaves the block
\* tables and the files as they were
C14_NewBlockNameError ==
    WroteNew =>
        /\ op.err = "NameError"
        /\ disk = op.before.disk
        /\ \A k \in 1 .. Len(snap._files) :
              ~HasBlock(gf[snap._files[k]], GName(op.name))

\* the families that held the quantity as a family array before the call
Holders(name) ==
    {f \in DOMAIN type_map : <<f, name>> \in DOMAIN op.before.snap._family_arrays}

\* the call of _write_array in hand was for a quantity that is on disk for
\* some families only, that several families held in memory and whose
\* block every file holds
WroteFamilies ==
    /\ op.pc = "wrote"
    /\ op.name \in loadable_family_keys(op.before.snap)
    /\ Cardinality(Holders(op.name)) >= 2
    /\ \A k \in 1 .. Len(snap._files) :
          HasBlock(gf[snap._files[k]], GName(op.name))

\* the particles of the type of fam the first k accepted files hold
RowsBefore(fam, k) ==
    SumUpTo([j \in 0 .. k - 1 |->
                UVal(gf[snap._files[j + 1]].header.npart[type_map[fam]])], k)

\* the bytes file k holds in the range of the block for the type of fam
OwnRange(fam, k) ==
    LET g == gf[snap._files[k]]
        b == g.blocks[GName(op.name)]
    IN  ReadAt(disk[snap._files[k]],
               b.start + b.partlen * get_start_part(g, GName(op.name), type_map[fam]),
               b.partlen * get_block_parts(g, GName(op.name), type_map[fam]))

\* the rows of the family array of fam that belong to file k, in the byte
\* order of the file
OwnRows(fam, k) ==
    LET a == op.before.snap._family_arrays[<<fam, op.name>>]
        r == Rows(a, RowsBefore(fam, k - 1), RowsBefore(fam, k))
    IN  Flatten([i \in 1 .. Len(r.elems) |->
                    Pack(gf[snap._files[k]].endian, r.elems[i])])

\* C15: for a family-specific quantity held by several families,
\* _write_array writes each family's rows into that family's own sub-range
\* of the block of every file; no family overwrites another.
C15_FamilyRowsInOwnRange ==
    WroteFamilies =>
        /\ op.err = ""
        /\ \A f \in Holders(op.name) :
              \A k \in 1 .. Len(snap._files) : OwnRange(f, k) = OwnRows(f, k)

\* such a call ends with an error, or with TypeError before any byte is
\* written where the build takes no float as a slice bound
C15_FamilyWriteFails ==
    WroteFamilies =>
        /\ op.err \in {"Exception", "TypeError"}
        /\ op.err = "TypeError" <=> ~float_index
        /\ op.err = "TypeError" => disk = op.before.disk

(***************************************************************************)
(* Claims on the threaded rendering (SpecThreads).                         *)
(***************************************************************************)
\* the particles of the call in hand
Particles == 0 .. Cardinality(DOMAIN render.qty) - 1

\* C16: with threaded = N the N workers render the slices i, i+N, i+2N,
\* ... for i = 0 .. N-1, which partition the particles; each worker makes
\* its own output; the result is the sum of exactly these N outputs, taken
\* after every worker has ended, whatever the order they ended in, and is
\* the single-pass image of all the particles.
C16_ThreadedSum ==
    (/\ render.pc = "done"
     /\ render.num_threads >= 1
     /\ render.job = "image") =>
        /\ Len(render.ts) = render.num_threads
        /\ \A t \in 1 .. Len(render.ts) :
              /\ render.ts[t].pc = "ended"
              /\ render.ts[t].snap_slice =
                     {k \in Particles : k % render.num_threads = t - 1}
        /\ \A k \in Particles :
              Cardinality({t \in 1 .. Len(render.ts) :
                              k \in render.ts[t].snap_slice}) = 1
        /\ Len(render.outputs) = render.num_threads
        /\ \A t \in 1 .. Len(render.ts) :
              Cardinality({o \in 1 .. Len(render.outputs) :
                              render.outputs[o].by = t}) = 1
        /\ \A o \in 1 .. Len(render.outputs) :
              render.outputs[o].X =
                  Deposit(render.ts[render.outputs[o].by].snap_slice, render.qty)
        /\ render.result = Deposit(Particles, render.qty)

\* three workers have ended in another order than they were started in,
\* and the sum has been taken
C16_Witness ==
    /\ render.pc = "done"
    /\ render.job = "image"
    /\ render.num_threads = 3
    /\ Cardinality(DOMAIN render.qty) >= 4
    /\ render.outputs[1].by = 3
    /\ render.outputs[3].by = 1

(***************************************************************************)
(* Claims on Kernel.get_samples (SpecKernel).                              *)
(***************************************************************************)
\* the table is computed at most once and every call that has returned
\* holds that one table
OnceAndSame ==
    /\ kernel.computed <= 1
    /\ \A t \in Callers :
          kernel.calls[t].pc = "done" =>
              /\ kernel.calls[t].ret.made # 0
              /\ kernel.calls[t].ret = kernel.samples
              /\ kernel.calls[t].ret.made = 1

\* the thread t is inside the with block
InWith(t) == kernel.calls[t].pc \in {"check", "compute", "release"}

\* C17 as stated: the table is computed at most once and every caller
\* gets the same table; a call made once the table is cached returns it
\* without acquiring the lock and never waits on a lock another caller
\* holds.
C17_CachedCallsUnlocked ==
    /\ OnceAndSame
    /\ \A t \in Callers :
          kernel.calls[t].cached =>
              /\ ~InWith(t)
              /\ ~(kernel.calls[t].pc = "acquire" /\ kernel.safe # 0)

\* C17 amended: the table is computed at most once and every caller gets
\* the same table, whatever dtype it asks for; every call, also one made
\* once the table is cached, takes the lock for its check, one call at a
\* time.
C17_OnceAndSameLocked ==
    /\ OnceAndSame
    /\ \A t \in Callers : InWith(t) <=> kernel.safe = t
    /\ \A t \in Callers :
          (kernel.calls[t].cached /\ kernel.calls[t].pc \in {"return", "done"})
              => kernel.computed = 1

\* three calls that asked for different dtypes have returned the one table
C17_Witness ==
    /\ \A t \in Callers : kernel.calls[t].pc = "done"
    /\ \E t, u \in Callers : kernel.calls[t].dtype # kernel.calls[u].dtype
    /\ \E t \in Callers : kernel.calls[t].cached
    /\ \E t \in Callers : ~kernel.calls[t].cached /\ kernel.calls[t].ret.made = 1
    /\ kernel.computed = 1

\* a call made once the table was cached waits for the lock another call
\* holds
C17_CachedCallWaits ==
    \E t \in Callers :
        /\ kernel.calls[t].cached
        /\ kernel.calls[t].pc = "acquire"
        /\ kernel.safe # 0


(***************************************************************************)
(* Claims on the multi-resolution renderer and denoise (SpecRender).       *)
(***************************************************************************)
\* the renderer has been chosen for a call with approximate_fast
FastChosen ==
    /\ render.pc \in {"pass", "rendered", "done"}
    /\ render.args.approximate_fast

\* C18 as stated: with approximate_fast the number of octave levels passed
\* to the multi-resolution renderer equals ceil(log2(nx / 20)) in real
\* division, for every nx.
C18_LevelsAreCeil ==
    render.args.approximate_fast =>
        /\ render.pc # "failed"
        /\ render.pc \in {"pass", "rendered", "done"} =>
              render.loc.levels = <<CeilLog2Of(render.loc.nx, 20, 0)>>

\* C18 amended: for an integer nx >= 20 the number of levels L is the floor
\* of log2(nx / 20), that is 20 * 2^L <= nx < 20 * 2^(L + 1), the same in
\* integer and in real division; for an integer nx below 20 the call fails
\* with OverflowError before any renderer is called.
C18_LevelsAreFloor ==
    render.args.approximate_fast =>
        /\ render.pc = "failed" =>
              /\ render.loc.nx < 20
              /\ render.err = "OverflowError"
              /\ render.passes = <<>>
        /\ render.pc \in {"pass", "rendered", "done"} =>
              /\ render.loc.nx >= 20
              /\ Len(render.loc.levels) = 1
              /\ 20 * Pow2(render.loc.levels[1]) <= render.loc.nx
              /\ render.loc.nx < 40 * Pow2(render.loc.levels[1])

\* a call with approximate_fast and an nx that is not 20 times a power of
\* two has chosen its renderer
C18_Witness ==
    /\ FastChosen
    /\ render.loc.nx = 100
    /\ render.loc.levels = <<2>>

\* a call with approximate_fast and an nx below 20 has failed
C18_SmallFails ==
    /\ render.pc = "failed"
    /\ render.loc.nx = 19

\* the passes that deposit a particle of smoothing length s2 (in half
\* pixels of the full resolution)
DepositedAt(s2) ==
    {k \in DOMAIN render.passes : InRange(s2, render.passes[k])}

\* C19 (as claimed): with approximate_fast, for every level count computed
\* from an nx >= 20, the smoothing-length ranges of the rendered levels,
\* each in that level's own pixel size, are pairwise disjoint and cover
\* every smoothing length from 0 to the upper cut-off: every particle is
\* deposited at exactly one level.
C19_EveryLengthOnce ==
    (render.pc = "rendered" /\ render.args.approximate_fast) =>
        \A s2 \in 0 .. MaxSmooth : Cardinality(DepositedAt(s2)) = 1

\* what does hold: the same for every nx >= 40, where the level count is
\* at least 1
C19_EveryLengthOnceFromForty ==
    (/\ render.pc = "rendered"
     /\ render.args.approximate_fast
     /\ render.loc.nx >= 40) =>
        \A s2 \in 0 .. MaxSmooth : Cardinality(DepositedAt(s2)) = 1

\* for an nx from 20 to 39 the level count is 0: the base pass with range
\* (0, 2) is the only one and a smoothing length of two pixels or more is
\* deposited nowhere
C19_ZeroLevelsDropLarge ==
    (/\ render.pc = "rendered"
     /\ render.args.approximate_fast
     /\ render.loc.nx < 40) =>
        /\ render.loc.levels = <<0>>
        /\ Len(render.passes) = 1
        /\ \A s2 \in 4 .. MaxSmooth : DepositedAt(s2) = {}

\* three levels have been rendered
C19_ThreeLevels ==
    /\ render.pc = "rendered"
    /\ render.args.approximate_fast
    /\ Len(render.passes) = 3

\* a denoised call has returned: render.first holds the core calls of the
\* render of the quantity, render.passes those of the coverage field
Denoised == render.pc = "done" /\ render.first # <<>>

\* the coverage field is rendered by the same core calls as the quantity
SameCalls ==
    /\ Len(render.passes) = Len(render.first)
    /\ \A k \in DOMAIN render.first :
          render.passes[k]
              = [render.first[k] EXCEPT !.qty = CoverName(render.args.fn)]

\* the bounds of a core call are a cube centred on the origin (a square
\* for an image)
Centred(p) ==
    \A k \in DOMAIN p.lim :
        /\ p.lim[k] = p.lim[1]
        /\ p.lim[k][1] = -p.lim[k][2]

\* C20 (as claimed): with denoise, render_image and to_3d_grid render the
\* coverage field (uniform 1) over exactly the same bounds, resolution,
\* kernel, smoothing array and threading as the quantity and divide the two
\* pointwise; for to_3d_grid also when the bounds were defaulted to the
\* bounding box of the particles.
C20_CoverageSameCalls == Denoised => SameCalls

\* what does hold: the same whenever the quantity was rendered over a cube
\* (or square) centred on the origin, as it is with an explicit x2
C20_CoverageSameCallsCentred ==
    (Denoised /\ Centred(render.first[1])) => SameCalls

\* to_3d_grid with defaulted bounds over an off-centre bounding box: the
\* coverage field is rendered over the cube from -max(x) to max(x)
C20_CoverageOverCube ==
    (Denoised /\ ~Centred(render.first[1])) =>
        /\ render.args.fn = "to_3d_grid"
        /\ Centred(render.passes[1])
        /\ render.passes[1].lim # render.first[1].lim
        /\ \A k \in DOMAIN render.passes :
              [render.passes[k] EXCEPT !.lim = render.first[k].lim]
                  = [render.first[k] EXCEPT !.qty = "__one"]

\* a denoised to_3d_grid call over an off-centre bounding box has returned
C20_OffCentreDenoised == Denoised /\ ~Centred(render.first[1])

(***************************************************************************)
(* Claims on failing workers and on the threaded spherical render          *)
(* (SpecThreads).                                                          *)
(***************************************************************************)
\* C21 (as claimed): a render whose out_units has a dimension incompatible
\* with that of the image fails with a units error and never returns an
\* image, single-threaded and with any number of worker threads.
C21_BadUnitsFail ==
    render.job = "bad_units" =>
        /\ render.pc # "done"
        /\ render.pc = "failed" => render.err = "UnitsException"

\* what does hold: the single-threaded render fails with the units error
C21_BadUnitsFailPlain ==
    (render.job = "bad_units" /\ render.num_threads = 0) =>
        /\ render.pc # "done"
        /\ render.pc = "failed" => render.err = "UnitsException"

\* with worker threads the error ends each worker and the call returns
\* the integer 0, the sum of an empty list
C21_BadUnitsThreadedZero ==
    (render.job = "bad_units" /\ render.num_threads >= 1) =>
        /\ render.pc # "failed"
        /\ render.pc = "done" =>
              /\ render.outputs = <<>>
              /\ render.scalar
              /\ \A t \in 1 .. Len(render.ts) :
                    render.ts[t].err = "UnitsException"

\* a threaded render with incompatible units has returned
C21_ThreadedReturned ==
    /\ render.job = "bad_units"
    /\ render.num_threads = 2
    /\ render.pc = "done"

\* the denoised spherical image of all the particles in one pass
SphericalOnePass == SphericalDenoised(DOMAIN render.qty, render.qty)

\* C30 (as claimed): render_spherical_image with denoise and threaded = N
\* returns the same image as the single-threaded denoised render.
C30_SphericalThreadedSame ==
    (/\ render.job = "spherical"
     /\ render.pc = "done") =>
        \A px \in Pixels : RatEq(render.result[px], SphericalOnePass[px])

\* what does hold: the same with one worker or none
C30_SphericalOneWorkerSame ==
    (/\ render.job = "spherical"
     /\ render.pc = "done"
     /\ render.num_threads <= 1) =>
        \A px \in Pixels : RatEq(render.result[px], SphericalOnePass[px])

\* every worker divides its own partial image by its own partial coverage
\* and the ratios are added
C30_RatiosAdded ==
    (/\ render.job = "spherical"
     /\ render.pc = "done"
     /\ render.num_threads >= 1) =>
        /\ \A o \in 1 .. Len(render.outputs) :
              render.outputs[o].X =
                  SphericalDenoised(render.ts[render.outputs[o].by].snap_slice,
                                    render.qty)
        /\ render.result = SumRatios(render.outputs, Len(render.outputs))

\* a threaded denoised spherical render has returned an image without nan
\* that is not the single-threaded one
C30_DiffersWithoutNan ==
    /\ render.job = "spherical"
    /\ render.pc = "done"
    /\ \E px \in Pixels :
          /\ render.result[px][2] # 0
          /\ SphericalOnePass[px][2] # 0
          /\ ~RatEq(render.result[px], SphericalOnePass[px])

(***************************************************************************)
(* Claim on the merged header across writes (SpecSnap).                    *)
(***************************************************************************)
\* the merged header holds for every type the sum of the counts of the
\* snapshot's files
MergedIsSum ==
    \A t \in Types :
        snap.header.npart[t] \o Zeros(4)
            = AcceptedSum(Len(snap._files), t)

C22_WriteLeavesLastLocal ==
    (snap.pc = "done" /\ op.pc = "wrote") =>
        snap.header.npart = gf[snap._files[Len(snap._files)]].header.npart

\* WriteAll on a snapshot of two files, whose counts are not all zero and
\* whose sums are below 2**32, has left the merged header holding other
\* counts than the sums
C22_WriteBrokeSums ==
    /\ snap.pc = "done"
    /\ op.pc = "wrote"
    /\ op.err = ""
    /\ Len(snap._files) = 2
    /\ \A t \in Types :
          SubSeq(AcceptedSum(Len(snap._files), t), 5, 8) = Zeros(4)
    /\ ~MergedIsSum

(***************************************************************************)
(* Claims on the end of the scan and on legacy block names (SpecOpen).     *)
(***************************************************************************)
\* the keys of the table of the object the constructor built or left
OpenKeys == DOMAIN op.res.blocks

\* the file holds no more blocks than the configuration names
WithinNames == op.fmt = 1 => op.nb + 1 <= Len(Gadget1Blocks)

\* C23 (as claimed): for both formats the scan of Open ends normally, with
\* every complete block read so far in the table, when it meets a
\* zero-length block header or the physical end of the file right after a
\* block footer; the end of the file at a block boundary is never an error.
C23_ScanEndsNormally ==
    (/\ op.pc = "opened"
     /\ op.ending \in {"eof", "zero"}
     /\ WithinNames) =>
        /\ op.res.err = ""
        /\ Cardinality(OpenKeys) = op.nb

\* what does hold: the same for the self-describing format, also when
\* stray bytes follow the last block, and for the legacy format when the
\* file ends with an empty record and the configuration has a name left
\* for it
C23_ScanEndsNormallyFormat2 ==
    (/\ op.pc = "opened"
     /\ \/ op.fmt = 2
        \/ op.ending = "zero" /\ op.nb + 2 <= Len(Gadget1Blocks)) =>
        /\ op.res.err = ""
        /\ Cardinality(OpenKeys) = op.nb

\* a legacy file that ends at the end of a block makes Open fail with
\* IOError; one whose empty record finds no name left makes it fail with
\* NameError
C23_LegacyEndFails ==
    (/\ op.pc = "opened"
     /\ op.fmt = 1
     /\ WithinNames) =>
        /\ op.ending \in {"eof", "stray"} => op.res.err = "IOError"
        /\ (op.ending = "zero" /\ op.nb + 1 = Len(Gadget1Blocks)) =>
               op.res.err = "NameError"

\* a legacy file of three blocks that ends after a footer has been scanned
C23_LegacyEofScanned ==
    /\ op.pc = "opened"
    /\ op.fmt = 1
    /\ op.ending = "eof"
    /\ op.nb = 2
    /\ Cardinality(OpenKeys) = 2

\* the configured name n as a key of four characters
Normalized(n) == SubSeq(Upper(n) \o NameBlank, 1, 4)

\* C24 (as claimed): in a legacy file the k-th block is recorded under the
\* k-th configured name normalized to four characters, upper-cased and
\* padded with spaces, so that the block named 'pos' is keyed 'POS ' and
\* gets the position rule; with more blocks than names Open fails.
C24_LegacyNamesNormalized ==
    (op.pc = "opened" /\ op.fmt = 1) =>
        /\ op.nb + 1 > Len(Gadget1Blocks) => op.res.err # ""
        /\ op.res.err = "" =>
              /\ OpenKeys = {Normalized(Gadget1Blocks[k + 1]) :
                                k \in 1 .. op.nb}
              /\ op.nb >= 1 => op.res.blocks[NamePOS].partlen = 12

\* what does hold: the k-th block is keyed by the configured name as it
\* is written, and a name that is not 'POS ', 'VEL ' or 'ID  ' to the
\* letter gets the rule of the other blocks (4 or 8 bytes per particle);
\* with more blocks than names Open fails
C24_LegacyNamesAsConfigured ==
    (op.pc = "opened" /\ op.fmt = 1) =>
        /\ op.nb + 1 > Len(Gadget1Blocks) => op.res.err # ""
        /\ op.res.err = "" =>
              /\ OpenKeys = {Key4(Gadget1Blocks[k + 1]) : k \in 1 .. op.nb}
              /\ \A n \in OpenKeys : op.res.blocks[n].partlen = 4

\* a legacy file with a position block has been opened
C24_LegacyOpened ==
    /\ op.pc = "opened"
    /\ op.fmt = 1
    /\ op.res.err = ""
    /\ op.nb = 2

(***************************************************************************)
(* Claim on blocks of 2**32 bytes or more (SpecBigScan).                   *)
(***************************************************************************)
\* block j of the file has a particle-count-derived length of 2**32 bytes
\* or more
BigBlock(j) == scan.t_part * scan.file[j].width >= WrapUnits

\* block j is in the table, found where it lies
Recorded(j) ==
    /\ scan.file[j].name \in DOMAIN scan.blocks
    /\ scan.blocks[scan.file[j].name].index = j

\* C27 (as claimed): every block whose length t_part * partlen is 2**32
\* or more, an exact multiple of 2**32 included, is recorded by Open with
\* the length t_part * partlen, the scan advances by that length and goes
\* on with the following block: no later block is lost or mislocated.
C27_BigBlocksRecorded ==
    scan.pc \in {"done", "failed"} =>
        \A j \in 1 .. Len(scan.file) :
            BigBlock(j) =>
                /\ Recorded(j)
                /\ scan.blocks[scan.file[j].name].length
                       = scan.t_part * scan.file[j].width
                /\ \A i \in j + 1 .. Len(scan.file) : Recorded(i)

\* the rule of lines 198-219 picks the width block j was written with when
\* it is handed the stored length
WidthGuessed(j) ==
    BlockStride(scan.file[j].name,
                TrueLen(scan.file[j], scan.npart) % WrapUnits,
                scan.t_part).partlen = scan.file[j].width

\* what does hold: a block of 2**32 bytes or more that holds every
\* particle, whose length is no multiple of 2**32 and whose width the rule
\* guesses is recorded with its length, when the scan gets to it
C27_BigBlocksRecordedWhenWhole ==
    \A j \in 1 .. Len(scan.file) :
        (/\ BigBlock(j)
         /\ scan.k > j \/ (scan.k = j /\ scan.pc = "done")
         /\ scan.file[j].holds = Types
         /\ TrueLen(scan.file[j], scan.npart) % WrapUnits # 0
         /\ WidthGuessed(j)) =>
            /\ Recorded(j)
            /\ scan.blocks[scan.file[j].name].length
                   = scan.t_part * scan.file[j].width

\* a block whose length is a multiple of 2**32 ends the scan: it and the
\* blocks after it are not in the table
C27_MultipleEndsScan ==
    scan.pc \in {"done", "failed"} =>
        \A j \in 1 .. Len(scan.file) :
            (/\ TrueLen(scan.file[j], scan.npart) % WrapUnits = 0
             /\ \A i \in 1 .. j - 1 : Recorded(i)) =>
                /\ scan.pc = "done"
                /\ \A i \in j .. Len(scan.file) : ~Recorded(i)

\* the scan has ended on a position block of exactly 3 * 2**32 bytes
C27_MultipleMet ==
    /\ scan.pc = "done"
    /\ scan.t_part = 64
    /\ scan.file[1].width = 12
    /\ scan.blocks = <<>>

\* a block of 2**32 bytes or more has been recorded and the scan went on
C27_BigRecorded ==
    /\ scan.pc = "done"
    /\ BigBlock(1)
    /\ \A j \in 1 .. Len(scan.file) : Recorded(j)

(***************************************************************************)
(* C25: add_file_block.                                                    *)
(***************************************************************************)
\* bytes of the records in front of a block's data: the name record and
\* the length in a format 2 file, the length alone in a format 1 file
HeadSize(g) == IF g.format2 THEN 4 + 4 + 4 + 4 + 4 ELSE 4

\* the bytes a block takes with its header and footer records, as a
\* half-open range of file offsets
Extent(g, b) ==
    [lo |-> b.start - HeadSize(g), hi |-> b.start + b.length + 4]

Disjoint(g) ==
    \A n, m \in DOMAIN g.blocks :
        n # m =>
            \/ Extent(g, g.blocks[n]).hi <= Extent(g, g.blocks[m]).lo
            \/ Extent(g, g.blocks[m]).hi <= Extent(g, g.blocks[n]).lo

\* the call added op.name to the table, data starting gap bytes after the
\* end of the data of the last block
AddedAfter(gap) ==
    LET g == gf["snap"]
        lb == LastBlock(op.before)
    IN  /\ op.err = ""
        /\ DOMAIN g.blocks = DOMAIN op.before \cup {op.name}
        /\ \A n \in DOMAIN op.before : g.blocks[n] = op.before[n]
        /\ g.blocks[op.name].start = lb.start + lb.length + gap
        /\ g.blocks[op.name].length = op.blocksize

\* C25: add_file_block writes no byte and leaves the entries of the table
\* as they are; it fails for a name the table holds; it places the data of
\* a new block after the data of the block with the highest start, its
\* footer and the header records of the new block (4 + 20 bytes in a format
\* 2 file, 4 + 4 in a format 1 file); the blocks of the table with their
\* header and footer records never overlap.
C25_AddedAfterLast ==
    op.pc = "added" =>
        /\ disk["snap"] = op.opened
        /\ Disjoint(gf["snap"])
        /\ op.name \in DOMAIN op.before =>
              op.err = "KeyError" /\ gf["snap"].blocks = op.before
        /\ (op.name \notin DOMAIN op.before /\ DOMAIN op.before # {}) =>
              AddedAfter(4 + HeadSize(gf["snap"]))

\* C25 as the code has it: the data start of a new block is 24 bytes after
\* the end of the data of the last block in both formats, and a call on an
\* empty table fails with ValueError
C25_AddedTwentyFourAfter ==
    op.pc = "added" =>
        /\ disk["snap"] = op.opened
        /\ Disjoint(gf["snap"])
        /\ op.name \in DOMAIN op.before =>
              op.err = "KeyError" /\ gf["snap"].blocks = op.before
        /\ (op.name \notin DOMAIN op.before /\ DOMAIN op.before # {}) =>
              AddedAfter(24)
        /\ (op.name \notin DOMAIN op.before /\ DOMAIN op.before = {}) =>
              op.err = "ValueError" /\ gf["snap"].blocks = op.before

\* two blocks were added to a format 2 file, the second of them after an
\* added one
C25_AddedTwo ==
    /\ op.pc = "added"
    /\ op.n = 2
    /\ op.err = ""
    /\ gf["snap"].format2
    /\ Cardinality(DOMAIN gf["snap"].blocks) = Cardinality(DOMAIN op.before) + 1
    /\ Cardinality(DOMAIN op.before) >= 3

\* a block was added to a format 1 file: 16 bytes lie between the footer of
\* the last block and the header of the new one
C25_LegacyHole ==
    /\ op.pc = "added"
    /\ op.err = ""
    /\ ~gf["snap"].format2
    /\ Extent(gf["snap"], gf["snap"].blocks[op.name]).lo
           = Extent(gf["snap"], LastBlock(op.before)).hi + 16

(***************************************************************************)
(* C26: the range of the file get_block reads.                             *)
(***************************************************************************)
\* the bytes of the file the elements of a returned array were read from
FileBytes(g, elems) ==
    Flatten([i \in 1 .. Len(elems) |->
                Pack("=", IF g.endian # "=" THEN Rev(elems[i]) ELSE elems[i])])

\* the particles of type t the block holds in this file
Held(g, b, t) == IF b.p_types[t] THEN UVal(g.header.npart[t]) ELSE 0

\* the number of particles the call is to read
GetCount ==
    LET g == gf["snap"]
        b == g.blocks[op.name]
    IN  IF op.p_type = -1 THEN Min2(op.p_toread, b.length \div b.partlen)
        ELSE Min2(op.p_toread, Held(g, b, op.p_type))

\* the file offset the call is to read from
GetOffset ==
    LET g == gf["snap"]
        b == g.blocks[op.name]
    IN  IF op.p_type = -1 THEN b.start
        ELSE b.start
               + b.partlen * SumUpTo([u \in Types |-> Held(g, b, u)], op.p_type)

ReadAllThenFamily ==
    /\ op.pc = "read"
    /\ op.n = 2
    /\ op.fam # "None"
    /\ op.err = ""
    /\ op.name \in DOMAIN op.before.snap._arrays

\* the rows of the array of all families that lie in the slice of op.fam
SliceOfAll ==
    Rows(snap._arrays[op.name], snap._family_slice[op.fam].start,
         snap._family_slice[op.fam].stop).elems

\* C28: in a snapshot of two or more files the rows that the array of all
\* families holds in the slice of a family are the rows of the array read
\* for that family alone, in the same order.
C28_FamilySliceOfAll ==
    (ReadAllThenFamily /\ Len(snap._files) >= 2) =>
        SliceOfAll = snap._family_arrays[<<op.fam, op.name>>].elems

\* C28 holds of a snapshot of one file
C28_FamilySliceOfAllOneFile ==
    (ReadAllThenFamily /\ Len(snap._files) = 1) =>
        SliceOfAll = snap._family_arrays[<<op.fam, op.name>>].elems

\* a snapshot of one file was read for all families and then for dm, a
\* family whose slice starts after the rows of another
C28_OneFileRead ==
    /\ ReadAllThenFamily
    /\ Len(snap._files) = 1
    /\ op.fam = "dm"
    /\ snap._family_slice["dm"].start >= 1
    /\ snap._family_slice["dm"].stop > snap._family_slice["dm"].start

\* in a snapshot of two files the array of all families holds the rows file
\* by file: the slice of gas starts with the gas rows of the first file and
\* goes on with rows of another family of the first file
C28_RowsFileByFile ==
    /\ ReadAllThenFamily
    /\ Len(snap._files) = 2
    /\ op.fam = "gas"
    /\ SliceOfAll # snap._family_arrays[<<"gas", op.name>>].elems
    /\ SliceOfAll =
          SubSeq(get_block(gf[snap._files[1]], disk[snap._files[1]],
                           translate(snap, op.name), -1,
                           snap._family_slice["gas"].stop).data.elems,
                 1, Len(SliceOfAll))

(***************************************************************************)
(* C29: the block a quantity is written to (SpecNames).                    *)
(***************************************************************************)
\* the quantity in hand was read from a block of the files and written
ReadAndWrote == op.pc = "wrote" /\ op.g_name \in op.keys

\* the logical name in hand is a value of the configured table
Configured == \E k \in 1 .. Len(op.items) : op.items[k][2] = op.name

\* the key is four characters without a small letter, the first no blank
PlainKey(nn) ==
    /\ Len(nn) = 4
    /\ nn[1] # 32
    /\ \A i \in 1 .. 4 : nn[i] \notin 97 .. 122

\* C29: _write_array writes a quantity to the block _load_array reads it
\* from, for every logical name, the names of the configured table among
\* them.
C29_WritesBlockRead ==
    ReadAndWrote => op.w_name = op.g_name

\* C29 for the names outside the configured table whose block key is in
\* capitals
C29_WritesBlockReadDefault ==
    (ReadAndWrote /\ ~Configured /\ PlainKey(op.g_name)) =>
        op.w_name = op.g_name

\* a name of the configured table is written under its own first four
\* characters in capitals, a block no file holds
C29_ConfiguredWrittenElsewhere ==
    (ReadAndWrote /\ Configured) =>
        /\ op.w_name = GName(op.name)
        /\ op.w_name # op.g_name
        /\ op.w_name \notin op.keys

\* iord, configured for the block ID, was read and written
C29_IordWritten ==
    /\ ReadAndWrote
    /\ op.name = <<105, 111, 114, 100>>
    /\ op.g_name = NameID

\* pos, the default name of the block POS, was read and written
C29_PosWritten ==
    /\ ReadAndWrote
    /\ op.name = NamePos
    /\ op.g_name = NamePOS
    /\ op.items # <<>>

=============================================================================
